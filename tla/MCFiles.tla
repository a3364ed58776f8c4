-------------------------------- MODULE MCFiles --------------------------------
EXTENDS FilesPromise

\* What the processes do and what the client does.
Split(p, c) == [t \in Threads |-> IF t = Client THEN c ELSE p]
Data(n) == [i \in 1..n |-> Cell(i, <<>>)]

\* One open file, and names in a subdirectory.
Tree == [files |-> <<[name |-> <<"a", "a">>, cells |-> Data(2)]>>,
         paths |-> {<<"/", "a", "a">>, <<"a", "a", "b", "/", "b">>,
                    <<"a", "a", "/", ".", ".", "/", "a", "a", "/", ".">>},
         nodes |-> {<<"/", "a", "a">>, <<"a", "a", "b", "/", "b">>},
         opens |-> 1,
         omodes |-> Split({{"O_WRONLY", "O_CREATE"}}, {{}}),
         writes |-> Split({Data(5)}, {}),
         reads |-> Split({}, {6, 15})]

\* Two open files, of one name.
Shared == [Tree EXCEPT !.paths = {<<"/">>, <<"/", "a", "a">>}, !.nodes = {}, !.opens = 3,
                       !.omodes = Split({{"O_WRONLY", "O_CREATE"}}, {{"O_RDWR"}}),
                       !.reads = Split({}, {})]

\* One name, that the client makes a device too, and reads and writes.
Device == [Tree EXCEPT !.paths = {<<"/", "a", "a">>}, !.nodes = {<<"/", "a", "a">>},
                       !.omodes = Split({}, {{"O_RDWR"}}),
                       !.writes = Split({}, {Data(3)}), !.reads = Split({}, {6})]

MCWorkloads == {Tree, Shared, Device}

\* Nothing but the root, which fills its block.
FullRoot == {[Tree EXCEPT !.files = <<>>]}
==============================================================================
