------------------------------- MODULE Console -------------------------------
(***************************************************************************)
(* The console's input buffer (console.c): consoleintr, which runs with    *)
(* interrupts off, and consoleread, which a process runs with interrupts   *)
(* on and without pushcli.                                                 *)
(*                                                                         *)
(* consoleread is split where an interrupt makes a difference.  The        *)
(* expression input.buf[input.r++ % INPUT_BUF] is two steps: the build has *)
(* no -O, and its code stores the new input.r before it loads the          *)
(* character.  Echoing and ^P do not touch the buffer and are left out.    *)
(***************************************************************************)
EXTENDS Integers, Sequences

CONSTANTS Char,         \* what may be in the buffer: letters, NL and EOT
          NL, CR, EOT,  \* \n, \r and ^D
          INPUT_BUF,
          UintSize,     \* 2^32 in the code: uint arithmetic wraps here
          MaxRead,      \* bound: the n of consoleread
          Race          \* may a key come while a reader that has made room in a
                        \* full buffer has not finished with the character yet?

ASSUME SizeAssumption ==
  /\ INPUT_BUF \in Nat \ {0} /\ UintSize \in Nat
  /\ UintSize > INPUT_BUF /\ UintSize % INPUT_BUF = 0
  /\ MaxRead \in Nat \ {0}
ASSUME CharAssumption == NL \in Char /\ EOT \in Char /\ NL # EOT /\ CR \notin Char
ASSUME RaceAssumption == Race \in BOOLEAN

VARIABLES buf, r, w, e,       \* input
          pc, i, c, dst, target   \* consoleread: the index it loads from, and c

vars == <<buf, r, w, e, pc, i, c, dst, target>>

uint(n) == n % UintSize

Init ==
  /\ buf = [k \in 0..(INPUT_BUF - 1) |-> NL]
  /\ r = 0 /\ w = 0 /\ e = 0
  /\ pc = "idle" /\ i = 0 /\ c = NL /\ dst = <<>> /\ target = 1

At(n) == buf[n % INPUT_BUF]

------------------------------------------------------------------------------
(* consoleintr, for one key.                                               *)

\* Keys wait while a full buffer's reader is busy, unless Race.
Timely == Race \/ pc \notin {"load", "taken"} \/ uint(e - r) < INPUT_BUF - 1

\* A key that ends the line; e and r are as they are before it is stored.
Commits(x) == x \in {NL, EOT} \/ uint(e + 1) = uint(r + INPUT_BUF)

\* Mutant: one character more than the buffer holds.
KeyOffByOne(k) ==
  /\ Timely
  /\ uint(e - r) <= INPUT_BUF
  /\ LET x == IF k = CR THEN NL ELSE k
     IN  /\ buf' = [buf EXCEPT ![e % INPUT_BUF] = x]
         /\ e' = uint(e + 1)
         /\ w' = IF Commits(x) THEN e' ELSE w
  /\ UNCHANGED <<r, pc, i, c, dst, target>>

\* Mutant: a carriage return is not turned into a newline.
KeyRaw(k) ==
  /\ Timely
  /\ uint(e - r) < INPUT_BUF
  /\ buf' = [buf EXCEPT ![e % INPUT_BUF] = k]
  /\ e' = uint(e + 1)
  /\ w' = IF Commits(k) THEN e' ELSE w
  /\ UNCHANGED <<r, pc, i, c, dst, target>>

\* The default case.
Key(k) ==
  /\ Timely
  /\ uint(e - r) < INPUT_BUF
  /\ LET x == IF k = CR THEN NL ELSE k
     IN  /\ buf' = [buf EXCEPT ![e % INPUT_BUF] = x]
         /\ e' = uint(e + 1)
         /\ w' = IF Commits(x) THEN e' ELSE w
  /\ UNCHANGED <<r, pc, i, c, dst, target>>

Backspace ==
  /\ e # w
  /\ e' = uint(e - 1)
  /\ UNCHANGED <<buf, r, w, pc, i, c, dst, target>>

\* ^U: back to the last character that is a newline, or to w.
KillLine ==
  /\ \E n \in 0..uint(e - w) :
       /\ \A m \in 1..n : At(uint(e - m)) # NL
       /\ n = uint(e - w) \/ At(uint(e - n - 1)) = NL
       /\ e' = uint(e - n)
  /\ UNCHANGED <<buf, r, w, pc, i, c, dst, target>>

------------------------------------------------------------------------------
(* consoleread.                                                            *)

consoleread(n) ==
  /\ pc = "idle" /\ pc' = "wait"
  /\ target' = n /\ dst' = <<>>
  /\ UNCHANGED <<buf, r, w, e, i, c>>

\* The wait is over: input.r++ ...
Increment ==
  /\ pc = "wait" /\ r # w
  /\ i' = r /\ r' = uint(r + 1)
  /\ pc' = "load"
  /\ UNCHANGED <<buf, w, e, c, dst, target>>

\* ... and the character.
Load ==
  /\ pc = "load"
  /\ c' = At(i)
  /\ pc' = "taken"
  /\ UNCHANGED <<buf, r, w, e, i, dst, target>>

\* Mutant: the ^D is not saved.
EndOfFileDropped ==
  /\ pc = "taken" /\ c = EOT
  /\ pc' = "idle"
  /\ UNCHANGED <<buf, r, w, e, i, c, dst, target>>

EndOfFile ==
  /\ pc = "taken" /\ c = EOT
  /\ r' = IF dst # <<>> THEN uint(r - 1) ELSE r
  /\ pc' = "idle"
  /\ UNCHANGED <<buf, w, e, i, c, dst, target>>

\* Mutant: a newline does not end the read.
CopyPastNewline ==
  /\ pc = "taken" /\ c # EOT
  /\ dst' = Append(dst, c)
  /\ pc' = IF Len(dst') = target THEN "idle" ELSE "wait"
  /\ UNCHANGED <<buf, r, w, e, i, c, target>>

Copy ==
  /\ pc = "taken" /\ c # EOT
  /\ dst' = Append(dst, c)
  /\ pc' = IF c = NL \/ Len(dst') = target THEN "idle" ELSE "wait"
  /\ UNCHANGED <<buf, r, w, e, i, c, target>>

Reader == Increment \/ Load \/ EndOfFile \/ Copy

Next ==
  \/ \E k \in Char \cup {CR} : Key(k)
  \/ Backspace \/ KillLine
  \/ \E n \in 1..MaxRead : consoleread(n)
  \/ Reader

Spec == Init /\ [][Next]_vars

\* The reader gets the CPU again and again (NoStarvation of Sched).
FairSpec == Spec /\ WF_vars(Reader)

------------------------------------------------------------------------------
(* Properties.                                                             *)

\* The types of input and of consoleread's variables.
TypeOK ==
  /\ buf \in [0..(INPUT_BUF - 1) -> Char]
  /\ {r, w, e, i} \subseteq 0..(UintSize - 1)
  /\ pc \in {"idle", "wait", "load", "taken"} /\ c \in Char
  /\ dst \in Seq(Char) /\ Len(dst) <= target /\ target \in 1..MaxRead

\* The indices keep their order r, w, e around the wrap of uint, and the buffer holds
\* all that is between r and e, and the character that is being read.  So it is for
\* ~Race: a key that finds the room of a character in the reader's hands breaks it.
IndexOrder ==
  /\ uint(w - r) + uint(e - w) = uint(e - r)
  /\ uint(e - r) <= INPUT_BUF
  /\ pc = "load" => uint(e - i) <= INPUT_BUF

\* The characters from index a up to index b.
Chars(a, b) == [k \in 1..uint(b - a) |-> At(uint(a + k - 1))]

LD == INSTANCE LineDiscipline WITH
        line <- Chars(w, e), ready <- Chars(r, w), Size <- INPUT_BUF,
        hand <- IF pc = "load" THEN At(i) ELSE c, got <- dst, want <- target,
        pc <- IF pc = "load" THEN "taken" ELSE pc

\* The circular buffer and its three indices implement the line discipline: no key is
\* lost, doubled, reordered or taken from a line that is still being edited.  For ~Race,
\* as EofSaved shows.
Implements == LD!Spec

\* An ended line is handed to the process that waits for it.
LineDelivered ==
  pc = "wait" /\ (\E k \in 1..uint(w - r) : Chars(r, w)[k] = NL) ~> pc = "idle"

\* A read that ends with a ^D after some characters saves it for the next read
\* (console.c:188-189).
EofSaved ==
  [][EndOfFile /\ dst # <<>> => At(r') = EOT]_vars
==============================================================================
