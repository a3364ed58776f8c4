--------------------------- MODULE LineDiscipline ---------------------------
(***************************************************************************)
(* What the console's input promises: a line is edited until it is ended   *)
(* by a newline, by end-of-file or by the buffer being full; a read takes  *)
(* characters of ended lines, in the order they were typed, and stops      *)
(* after a newline; an end-of-file stops it too, and stays for the next    *)
(* read unless this one has nothing.                                       *)
(***************************************************************************)
EXTENDS Naturals, Sequences

CONSTANTS Char, NL, EOT,
          Size,         \* how many characters wait at most
          MaxRead       \* bound: how many characters a read asks for

VARIABLES line, ready,  \* the line being edited; the ended ones
          hand,         \* the character the reader has just taken
          got, want,    \* what the read has got and how much it wants
          pc            \* the reader

vars == <<line, ready, hand, got, want, pc>>

Init ==
  /\ line = <<>> /\ ready = <<>>
  /\ hand = NL /\ got = <<>> /\ want = 1 /\ pc = "idle"

Pending == Len(ready) + Len(line)

Type(c) ==
  /\ Pending < Size
  /\ IF c \in {NL, EOT} \/ Pending + 1 = Size
     THEN ready' = Append(ready \o line, c) /\ line' = <<>>
     ELSE line' = Append(line, c) /\ UNCHANGED ready
  /\ UNCHANGED <<hand, got, want, pc>>

Erase ==
  /\ line # <<>>
  /\ line' = SubSeq(line, 1, Len(line) - 1)
  /\ UNCHANGED <<ready, hand, got, want, pc>>

Kill ==
  /\ line' = <<>>
  /\ UNCHANGED <<ready, hand, got, want, pc>>

Read(n) ==
  /\ pc = "idle" /\ pc' = "wait"
  /\ want' = n /\ got' = <<>>
  /\ UNCHANGED <<line, ready, hand>>

Take ==
  /\ pc = "wait" /\ ready # <<>>
  /\ hand' = Head(ready) /\ ready' = Tail(ready)
  /\ pc' = "taken"
  /\ UNCHANGED <<line, got, want>>

Eof ==
  /\ pc = "taken" /\ hand = EOT
  /\ ready' = IF got = <<>> THEN ready ELSE <<EOT>> \o ready
  /\ pc' = "idle"
  /\ UNCHANGED <<line, hand, got, want>>

Deliver ==
  /\ pc = "taken" /\ hand # EOT
  /\ got' = Append(got, hand)
  /\ pc' = IF hand = NL \/ Len(got') = want THEN "idle" ELSE "wait"
  /\ UNCHANGED <<line, ready, hand, want>>

Next ==
  \/ \E c \in Char : Type(c)
  \/ Erase \/ Kill
  \/ \E n \in 1..MaxRead : Read(n)
  \/ Take \/ Eof \/ Deliver

Spec == Init /\ [][Next]_vars
==============================================================================
