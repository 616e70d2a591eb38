-------------------------- MODULE CurpServerProofs --------------------------
(***************************************************************************)
(* What a start of the process can find on disk, for any number of         *)
(* servers, starts and kills.                                              *)
(***************************************************************************)
EXTENDS CurpServer, TLAPS

(* A server whose directory has its WAL, and one that has been closed.     *)
Up(s) == srv[s].boot \in {"ready", "on", "stopped"} /\ disk[s].wal = "file"

Gone(s) == srv[s].boot = "stopped" /\ disk[s].wal = "none"

Closing == {"close", "errorC", "removeWal", "removeDir", "removeSnap"}

(* How far main is decides on the servers before and after it, ...         *)
Passed ==
    \A s \in Server :
        /\ main.pc = "down" => srv[s].boot = "off"
        /\ s < main.s /\ main.pc # "down" => Up(s)
        /\ s > main.s /\ main.pc \in {"run", "ready"} => srv[s].boot = "off"
        /\ s > main.s /\ main.pc \in Closing => Gone(s)
        /\ s > main.s => main.pc # "signal"

(* ... and on the one it is at.                                            *)
Current ==
    LET s == main.s IN
    /\ main.pc = "down" => main = Down
    /\ main.pc = "run" => srv[s].boot = "off"
    /\ main.pc = "ready" => srv[s].boot \in {"begin", "replay", "create"} \/ Up(s)
    /\ main.pc \in {"signal", "close", "errorC"} => Up(s)
    /\ main.pc = "removeWal" => Up(s) /\ srv[s].boot = "stopped"
    /\ main.pc = "removeDir" => srv[s].boot = "stopped" /\ disk[s].wal = "empty"
    /\ main.pc = "removeSnap" => Gone(s)

(* A server that has not looked at its directory, or not made one.         *)
Unsure(s) == srv[s].boot \in {"off", "begin", "replay"}

Files ==
    \A s \in Server :
        /\ Unsure(s) /\ disk[s].wal # "none" => cut[s]
        /\ Unsure(s) /\ disk[s].wal = "empty" => \A t \in Server : t < s => cut[t]
        /\ srv[s].boot = "replay" => (srv[s].oldwal <=> disk[s].wal = "file")
        /\ srv[s].boot = "create" =>
              ~srv[s].oldwal /\ disk[s].wal = "empty" /\ boots[s] = 0
        /\ srv[s].boot = "ready" /\ ~srv[s].oldwal => boots[s] = 0
        /\ srv[s].boot \in {"ready", "on"} /\ srv[s].oldwal => cut[s]
        /\ disk[s].wal = "none" => boots[s] = 0
        /\ boots[s] <= 1

(* Why the process gave up is still to be seen on disk.                    *)
Fatal == fatal => main = Down /\ \E s \in Server : disk[s].wal = "empty" /\ cut[s]

(* The inductive invariant.                                                *)
Inv == TypeOK /\ Passed /\ Current /\ Files /\ Fatal

LEMMA InitInv == Init => Inv
<1> SUFFICES ASSUME Init PROVE Inv
    OBVIOUS
<1>0. 1 \in Server /\ MaxStarts \in Nat /\ MaxKills \in Nat
    BY ServerAssumption DEF Server
<1>1. TypeOK
    <2>1. Off \in Goroutines /\ NoFiles \in Directories
        BY DEF Off, Goroutines, NoFiles, Directories
    <2>2. /\ main \in [pc : {"down", "run", "ready", "signal", "close", "errorC",
                            "removeWal", "removeDir", "removeSnap"}, s : Server]
          /\ srv \in [Server -> Goroutines] /\ disk \in [Server -> Directories]
        BY <1>0, <2>1 DEF Init, Down
    <2>3. starts \in 0..MaxStarts /\ kills \in 0..MaxKills
        BY <1>0 DEF Init
    <2> QED
        BY <2>2, <2>3 DEF Init, TypeOK
<1>2. Passed /\ Current
    BY <1>0 DEF Init, Passed, Current, Server, Off, Down, Closing
<1>3. Files /\ Fatal
    BY <1>0 DEF Init, Files, Fatal, Unsure, Off, NoFiles
<1> QED
    BY <1>1, <1>2, <1>3 DEF Inv

(* A step of a goroutine that does not touch boot and oldwal keeps Inv.    *)
LEMMA LocalInv ==
    ASSUME Inv, NEW s \in Server, NEW r,
           r \in Goroutines, r.boot = srv[s].boot, r.oldwal = srv[s].oldwal, Local(s, r)
    PROVE  Inv'
<1>1. srv' \in [Server -> Goroutines]
    BY DEF Local, Inv, TypeOK
<1>2. \A t \in Server : srv'[t].boot = srv[t].boot /\ srv'[t].oldwal = srv[t].oldwal
    BY DEF Local, Inv, TypeOK
<1>3. UNCHANGED <<main, disk, leader, starts, kills, cut, boots, fatal>>
    BY DEF Local, rest
<1>4. TypeOK'
    BY <1>1, <1>3 DEF Inv, TypeOK
<1>5. Passed' /\ Current'
    BY <1>2, <1>3 DEF Inv, TypeOK, Passed, Current, Up, Gone, Closing
<1>6. Files' /\ Fatal'
    BY <1>2, <1>3 DEF Inv, TypeOK, Files, Fatal, Unsure
<1> QED
    BY <1>4, <1>5, <1>6 DEF Inv

(* The process ends, at whatever point.                                    *)
LEMMA DieInv ==
    ASSUME Inv, NEW b \in BOOLEAN, Die(b),
           UNCHANGED <<leader, starts, boots>>, kills' \in 0..MaxKills,
           disk' \in [Server -> Directories],
           cut' \in [Server -> BOOLEAN],
           \A s \in Server : disk'[s].wal = disk[s].wal,
           \A s \in Server : disk[s].wal # "none" => cut'[s],
           \A s, t \in Server : disk[s].wal = "empty" /\ t < s => cut'[t],
           b => \E s \in Server : disk[s].wal = "empty"
    PROVE  Inv'
<1>0. 1 \in Server
    BY ServerAssumption DEF Server
<1>1. main' = Down /\ fatal' = b /\ \A s \in Server : srv'[s] = Off
    BY DEF Die
<1>2. TypeOK'
    BY <1>0 DEF Inv, TypeOK, Die, Off, Goroutines, Down
<1>3. Passed' /\ Current'
    BY <1>0, <1>1 DEF Passed, Current, Server, Off, Down, Closing
<1>4. Files'
    BY <1>1 DEF Inv, Files, TypeOK, Off, Unsure
<1>5. Fatal'
    BY <1>1 DEF Fatal
<1> QED
    BY <1>2, <1>3, <1>4, <1>5 DEF Inv

(* What the invariant says of the server that main waits for.              *)
LEMMA Starting ==
    ASSUME Inv, NEW s \in Server, srv[s].boot \in {"begin", "replay", "create"}
    PROVE  main = [pc |-> "ready", s |-> s]
<1>1. main.s \in Server /\ main = [pc |-> main.pc, s |-> main.s]
    BY DEF Inv, TypeOK
<1>2. ~(s < main.s) /\ ~(s > main.s)
    BY <1>1 DEF Inv, TypeOK, Passed, Current, Up, Gone, Closing
<1>3. s = main.s
    BY <1>1, <1>2, ServerAssumption DEF Server
<1>4. main.pc = "ready"
    BY <1>3 DEF Inv, TypeOK, Passed, Current, Up, Gone
<1> QED
    BY <1>1, <1>3, <1>4

(* The start, ...                                                          *)
LEMMA StartInv ==
    ASSUME Inv, Start
    PROVE  Inv'
<1>0. 1 \in Server
    BY ServerAssumption DEF Server
<1>1. main' = [pc |-> "run", s |-> 1] /\ ~fatal' /\ \A s \in Server : srv'[s] = Off
    BY DEF Start, Goto
<1>2. \A s \in Server : srv[s].boot = "off"
    BY DEF Start, Down, Inv, Passed
<1>3. TypeOK'
    <2>1. srv' \in [Server -> Goroutines]
        BY DEF Start, Off, Goroutines
    <2>2. starts' \in 0..MaxStarts
        BY ServerAssumption DEF Inv, TypeOK, Start
    <2> QED
        BY <1>0, <1>1, <2>1, <2>2 DEF Inv, TypeOK, Start
<1>4. Passed' /\ Current'
    BY <1>0, <1>1 DEF Passed, Current, Server, Off, Closing
<1>5. Files'
    BY <1>1, <1>2 DEF Start, Inv, Files, Off, Unsure
<1> QED
    BY <1>1, <1>3, <1>4, <1>5 DEF Inv, Fatal

LEMMA RunStateMachineInv ==
    ASSUME Inv, NEW s \in Server, RunStateMachine(s)
    PROVE  Inv'
<1>1. main = [pc |-> "run", s |-> s] /\ main' = [pc |-> "ready", s |-> s]
    BY DEF RunStateMachine, At, Goto
<1>2. UNCHANGED <<disk, leader, starts, kills, cut, boots, fatal>>
    BY DEF RunStateMachine, rest
<1>3. /\ srv' \in [Server -> Goroutines] /\ srv'[s].boot = "begin"
      /\ \A t \in Server \ {s} : srv'[t] = srv[t]
    BY DEF RunStateMachine, Inv, TypeOK, Goroutines
<1>4. TypeOK'
    BY <1>1, <1>2, <1>3 DEF Inv, TypeOK
<1>5. Passed' /\ Current'
    BY <1>1, <1>2, <1>3, ServerAssumption DEF Inv, Passed, Current, Up, Closing, Server
<1>6. srv[s].boot = "off"
    BY <1>1 DEF Inv, Current
<1>7. Files'
    BY <1>2, <1>3, <1>6 DEF Inv, Files, Unsure
<1>8. Fatal'
    BY <1>1, <1>2 DEF Inv, Fatal, Down
<1> QED
    BY <1>4, <1>5, <1>7, <1>8 DEF Inv

LEMMA SnapReadyInv ==
    ASSUME Inv, NEW s \in Server, SnapReady(s)
    PROVE  Inv'
<1>1. /\ main = [pc |-> "ready", s |-> s]
      /\ UNCHANGED <<srv, disk, leader, starts, kills, cut, boots, fatal>>
    BY DEF SnapReady, At, rest
<1>2. Up(s)
    BY <1>1 DEF SnapReady, Inv, Current
<1>3. CASE s < N
    <2>1. main' = [pc |-> "run", s |-> s + 1] /\ s + 1 \in Server
        BY <1>3, ServerAssumption DEF SnapReady, Goto, Server
    <2>2. TypeOK'
        BY <1>1, <2>1 DEF Inv, TypeOK
    <2>3. Passed' /\ Current'
        BY <1>1, <1>2, <2>1, ServerAssumption DEF Inv, Passed, Current, Up, Closing, Server
    <2> QED
        BY <1>1, <2>1, <2>2, <2>3 DEF Inv, Files, Unsure, Fatal, Down
<1>4. CASE ~(s < N)
    <2>1. main' = [pc |-> "signal", s |-> N] /\ s = N
        BY <1>4, ServerAssumption DEF SnapReady, Goto, Server
    <2>2. TypeOK'
        BY <1>1, <2>1 DEF Inv, TypeOK
    <2>3. Passed' /\ Current'
        BY <1>1, <1>2, <2>1, ServerAssumption DEF Inv, Passed, Current, Up, Closing, Server
    <2> QED
        BY <1>1, <2>1, <2>2, <2>3 DEF Inv, Files, Unsure, Fatal, Down
<1> QED
    BY <1>3, <1>4

(* What one step does to the record of a server, and to its directories.   *)
LEMMA SetBoot ==
    ASSUME Inv, NEW s \in Server, NEW b \in {"begin", "create", "ready", "stopped"},
           srv' = [srv EXCEPT ![s].boot = b]
    PROVE  /\ srv' \in [Server -> Goroutines]
           /\ srv'[s].boot = b /\ srv'[s].oldwal = srv[s].oldwal
           /\ \A t \in Server \ {s} : srv'[t] = srv[t]
<1> DEFINE r == [srv[s] EXCEPT !.boot = b]
<1>1. srv \in [Server -> Goroutines] /\ srv[s] \in Goroutines
    BY DEF Inv, TypeOK
<1>2. r \in Goroutines /\ r.boot = b /\ r.oldwal = srv[s].oldwal
    BY <1>1 DEF Goroutines
<1>3. srv' = [srv EXCEPT ![s] = r]
    BY <1>1
<1> HIDE DEF r
<1> QED
    BY <1>1, <1>2, <1>3

LEMMA SetWal ==
    ASSUME Inv, NEW s \in Server, NEW w \in {"none", "empty", "file"},
           disk' = [disk EXCEPT ![s].wal = w]
    PROVE  /\ disk' \in [Server -> Directories] /\ disk'[s].wal = w
           /\ \A t \in Server \ {s} : disk'[t] = disk[t]
<1> DEFINE d == [disk[s] EXCEPT !.wal = w]
<1>1. disk \in [Server -> Directories] /\ disk[s] \in Directories
    BY DEF Inv, TypeOK
<1>2. d \in Directories /\ d.wal = w
    BY <1>1 DEF Directories
<1>3. disk' = [disk EXCEPT ![s] = d]
    BY <1>1
<1> HIDE DEF d
<1> QED
    BY <1>1, <1>2, <1>3

LEMMA SetSnap ==
    ASSUME Inv, NEW s \in Server, NEW b \in BOOLEAN, disk' = [disk EXCEPT ![s].snap = b]
    PROVE  /\ disk' \in [Server -> Directories]
           /\ \A t \in Server : disk'[t].wal = disk[t].wal
<1> DEFINE d == [disk[s] EXCEPT !.snap = b]
<1>1. disk \in [Server -> Directories] /\ disk[s] \in Directories
    BY DEF Inv, TypeOK
<1>2. d \in Directories /\ d.wal = disk[s].wal
    BY <1>1 DEF Directories
<1>3. disk' = [disk EXCEPT ![s] = d]
    BY <1>1
<1> HIDE DEF d
<1> QED
    BY <1>1, <1>2, <1>3

LEMMA MakeSnapDirInv ==
    ASSUME Inv, NEW s \in Server, MakeSnapDir(s)
    PROVE  Inv'
<1>1. main = [pc |-> "ready", s |-> s] /\ srv[s].boot = "begin"
    BY Starting DEF MakeSnapDir
<1>2. UNCHANGED <<main, leader, starts, kills, cut, boots, fatal>>
    BY DEF MakeSnapDir, rest
<1>3. /\ srv' \in [Server -> Goroutines] /\ disk' \in [Server -> Directories]
      /\ srv'[s].boot = "replay" /\ (srv'[s].oldwal <=> disk'[s].wal = "file")
      /\ \A t \in Server : disk'[t].wal = disk[t].wal
      /\ \A t \in Server \ {s} : srv'[t] = srv[t]
    <2> DEFINE r == [srv[s] EXCEPT !.boot = "replay", !.oldwal = WalExist(s)]
    <2>1. srv \in [Server -> Goroutines] /\ srv[s] \in Goroutines
        BY DEF Inv, TypeOK
    <2>2. WalExist(s) \in BOOLEAN /\ (WalExist(s) <=> disk[s].wal = "file")
        BY DEF WalExist
    <2>3. r \in Goroutines /\ r.boot = "replay" /\ r.oldwal = WalExist(s)
        BY <2>1, <2>2 DEF Goroutines
    <2>4. srv' = [srv EXCEPT ![s] = r]
        BY <2>1 DEF MakeSnapDir
    <2>5. /\ disk' \in [Server -> Directories]
          /\ \A t \in Server : disk'[t].wal = disk[t].wal
        BY SetSnap DEF MakeSnapDir
    <2> HIDE DEF r
    <2> QED
        BY <2>1, <2>2, <2>3, <2>4, <2>5
<1>4. TypeOK'
    BY <1>2, <1>3 DEF Inv, TypeOK
<1>5. Passed' /\ Current'
    BY <1>1, <1>2, <1>3, ServerAssumption DEF Inv, Passed, Current, Up, Closing, Server
<1>6. Files'
    BY <1>1, <1>2, <1>3 DEF Inv, Files, Unsure
<1>7. Fatal'
    BY <1>1, <1>2 DEF Inv, Fatal, Down
<1> QED
    BY <1>4, <1>5, <1>6, <1>7 DEF Inv

LEMMA CreateWALInv ==
    ASSUME Inv, NEW s \in Server, CreateWAL(s)
    PROVE  Inv'
<1>1. main = [pc |-> "ready", s |-> s] /\ srv[s].boot = "create"
    BY Starting DEF CreateWAL
<1>2. UNCHANGED <<main, leader, starts, kills, cut, boots, fatal>>
    BY DEF CreateWAL, rest
<1>3. /\ srv' \in [Server -> Goroutines] /\ disk' \in [Server -> Directories]
      /\ srv'[s].boot = "ready" /\ srv'[s].oldwal = srv[s].oldwal
      /\ disk'[s].wal = "file"
      /\ \A t \in Server \ {s} : srv'[t] = srv[t] /\ disk'[t] = disk[t]
    BY SetBoot, SetWal DEF CreateWAL
<1>4. TypeOK'
    BY <1>2, <1>3 DEF Inv, TypeOK
<1>5. Passed' /\ Current'
    BY <1>1, <1>2, <1>3, ServerAssumption DEF Inv, Passed, Current, Up, Closing, Server
<1>6. Files'
    BY <1>1, <1>2, <1>3 DEF Inv, Files, Unsure
<1>7. Fatal'
    BY <1>1, <1>2 DEF Inv, Fatal, Down
<1> QED
    BY <1>4, <1>5, <1>6, <1>7 DEF Inv

LEMMA OpenWALInv ==
    ASSUME Inv, NEW s \in Server, OpenWAL(s)
    PROVE  Inv'
<1>1. main = [pc |-> "ready", s |-> s] /\ srv[s].boot = "replay"
    BY Starting DEF OpenWAL
<1>2. UNCHANGED <<leader, starts, kills, cut, boots>>
    BY DEF OpenWAL
<1>3. CASE disk[s].wal = "empty"
    <2>1. Die(TRUE) /\ UNCHANGED disk
        BY <1>3 DEF OpenWAL
    <2>2. \A t \in Server : t < s => cut[t] /\ disk[t].wal = "file"
        BY <1>1, <1>3 DEF Inv, Files, Passed, Unsure, Up
    <2>3. \A t \in Server : t > s => Unsure(t)
        BY <1>1 DEF Inv, Passed, Unsure
    <2>4. Unsure(s)
        BY <1>1 DEF Unsure
    <2>5. \A t \in Server : disk[t].wal # "none" => cut[t]
        BY <2>2, <2>3, <2>4, ServerAssumption DEF Inv, Files, Server
    <2>6. \A u, t \in Server : disk[u].wal = "empty" /\ t < u => cut[t]
        BY <2>2, <2>3, <2>4, ServerAssumption DEF Inv, Files, Server
    <2> QED
        BY <1>2, <1>3, <2>1, <2>5, <2>6, DieInv DEF Inv, TypeOK
<1>4. CASE disk[s].wal = "none"
    <2>1. /\ UNCHANGED <<main, fatal>>
          /\ srv' \in [Server -> Goroutines] /\ disk' \in [Server -> Directories]
          /\ srv'[s].boot = "create" /\ srv'[s].oldwal = srv[s].oldwal
          /\ disk'[s].wal = "empty"
          /\ \A t \in Server \ {s} : srv'[t] = srv[t] /\ disk'[t] = disk[t]
        BY <1>4, SetBoot, SetWal DEF OpenWAL
    <2>2. TypeOK'
        BY <1>2, <2>1 DEF Inv, TypeOK
    <2>3. Passed' /\ Current'
        BY <1>1, <1>2, <2>1, ServerAssumption DEF Inv, Passed, Current, Up, Closing, Server
    <2>4. Files'
        BY <1>1, <1>2, <1>4, <2>1 DEF Inv, Files, Unsure
    <2> QED
        BY <1>1, <2>1, <2>2, <2>3, <2>4 DEF Inv, Fatal, Down
<1>5. CASE disk[s].wal = "file"
    <2>1. /\ UNCHANGED <<main, fatal, disk>>
          /\ srv' \in [Server -> Goroutines]
          /\ srv'[s].boot = "ready" /\ srv'[s].oldwal = srv[s].oldwal
          /\ \A t \in Server \ {s} : srv'[t] = srv[t]
        BY <1>5, SetBoot DEF OpenWAL
    <2>2. TypeOK'
        BY <1>2, <2>1 DEF Inv, TypeOK
    <2>3. Passed' /\ Current'
        BY <1>1, <1>2, <1>5, <2>1, ServerAssumption DEF Inv, Passed, Current, Up, Closing, Server
    <2>4. Files'
        BY <1>1, <1>2, <1>5, <2>1 DEF Inv, Files, Unsure
    <2> QED
        BY <1>1, <2>1, <2>2, <2>3, <2>4 DEF Inv, Fatal, Down
<1>6. disk[s].wal \in {"none", "empty", "file"}
    BY DEF Inv, TypeOK, Directories
<1> QED
    BY <1>3, <1>4, <1>5, <1>6

(* A server that has its WAL file runs, or is stopped.                     *)
LEMMA AdvanceInv ==
    ASSUME Inv, NEW s \in Server, srv[s].boot \in {"ready", "on"},
           UNCHANGED <<main, leader, disk, starts, kills, cut, fatal>>,
           srv' \in [Server -> Goroutines], boots' \in [Server -> Nat],
           srv'[s].boot \in {"on", "stopped"}, srv'[s].oldwal = srv[s].oldwal,
           boots'[s] = boots[s]
             \/ (srv[s].boot = "ready" /\ ~srv[s].oldwal /\ boots'[s] = boots[s] + 1),
           \A t \in Server \ {s} : srv'[t] = srv[t] /\ boots'[t] = boots[t]
    PROVE  Inv'
<1>1. Up(s)
    BY ServerAssumption DEF Inv, TypeOK, Passed, Current, Server, Up, Gone, Closing
<1>2. TypeOK'
    BY DEF Inv, TypeOK
<1>3. Passed' /\ Current'
    BY <1>1 DEF Inv, TypeOK, Passed, Current, Up, Gone, Closing
<1>4. Files'
    BY <1>1 DEF Inv, TypeOK, Files, Unsure, Up
<1>5. Fatal'
    BY DEF Inv, Fatal
<1> QED
    BY <1>2, <1>3, <1>4, <1>5 DEF Inv

LEMMA StartNodeInv ==
    ASSUME Inv, NEW s \in Server, StartNode(s)
    PROVE  Inv'
<1>1. /\ srv' \in [Server -> Goroutines]
      /\ srv'[s].boot = "on" /\ srv'[s].oldwal = srv[s].oldwal
      /\ \A t \in Server \ {s} : srv'[t] = srv[t]
    <2> DEFINE r == [srv[s] EXCEPT !.boot = "on", !.http = "listen"]
    <2>1. srv \in [Server -> Goroutines] /\ srv[s] \in Goroutines
        BY DEF Inv, TypeOK
    <2>2. r \in Goroutines /\ r.boot = "on" /\ r.oldwal = srv[s].oldwal
        BY <2>1 DEF Goroutines
    <2>3. srv' = [srv EXCEPT ![s] = r]
        BY <2>1 DEF StartNode
    <2> HIDE DEF r
    <2> QED
        BY <2>1, <2>2, <2>3
<1>2. /\ boots' \in [Server -> Nat]
      /\ boots'[s] = IF srv[s].oldwal THEN boots[s] ELSE boots[s] + 1
      /\ \A t \in Server \ {s} : boots'[t] = boots[t]
    BY DEF StartNode, Inv, TypeOK
<1> QED
    BY <1>1, <1>2, AdvanceInv DEF StartNode

LEMMA StopInv ==
    ASSUME Inv, NEW s \in Server, Stop(s)
    PROVE  Inv'
<1>1. /\ srv' \in [Server -> Goroutines]
      /\ srv'[s].boot = "stopped" /\ srv'[s].oldwal = srv[s].oldwal
      /\ \A t \in Server \ {s} : srv'[t] = srv[t]
    BY DEF Stop, Local, Inv, TypeOK, Goroutines
<1>2. UNCHANGED <<main, leader, disk, starts, kills, cut, boots, fatal>>
    BY DEF Stop, Local, rest
<1> QED
    BY <1>1, <1>2, AdvanceInv DEF Stop, Inv, TypeOK

(* main goes on, and the servers and their directories stay as they are.   *)
LEMMA MoveInv ==
    ASSUME Inv, srv' \in [Server -> Goroutines],
           \A t \in Server : srv'[t].boot = srv[t].boot /\ srv'[t].oldwal = srv[t].oldwal,
           UNCHANGED <<disk, leader, starts, kills, cut, boots, fatal>>,
           NEW pc \in {"signal", "close", "errorC", "removeWal"}, NEW s \in Server,
           main = [pc |-> pc, s |-> s],
           \/ pc = "signal" /\ main' = [pc |-> "close", s |-> N]
           \/ pc = "close" /\ main' = [pc |-> "errorC", s |-> s]
           \/ /\ pc = "errorC" /\ srv[s].boot = "stopped"
              /\ main' = [pc |-> "removeWal", s |-> s]
    PROVE  Inv'
<1>1. N \in Server /\ N \in Nat
    BY ServerAssumption DEF Server
<1>2. TypeOK'
    BY <1>1 DEF Inv, TypeOK
<1>3. Up(s)
    BY DEF Inv, Current, Up
<1>4. CASE pc = "signal"
    <2>1. s = N
        BY <1>1, <1>4 DEF Inv, Passed, Server
    <2> QED
        BY <1>1, <1>2, <1>3, <1>4, <2>1
           DEF Inv, Passed, Current, Files, Fatal, Up, Unsure, Closing, Server, Down
<1>5. CASE pc # "signal"
    <2>1. Passed' /\ Current'
        BY <1>3, <1>5 DEF Inv, Passed, Current, Up, Gone, Closing
    <2>2. Files' /\ Fatal'
        BY <1>5 DEF Inv, Files, Fatal, Unsure, Down
    <2> QED
        BY <1>2, <2>1, <2>2 DEF Inv
<1> QED
    BY <1>4, <1>5

LEMMA SignalInv ==
    ASSUME Inv, Signal
    PROVE  Inv'
<1>1. main = [pc |-> "signal", s |-> main.s] /\ main.s \in Server
    BY DEF Signal, Inv, TypeOK
<1>2. main' = [pc |-> "close", s |-> N]
    BY DEF Signal, Goto
<1>3. UNCHANGED <<srv, disk, leader, starts, kills, cut, boots, fatal>>
    BY DEF Signal, rest
<1>4. srv' \in [Server -> Goroutines]
    BY <1>3 DEF Inv, TypeOK
<1> QED
    BY <1>1, <1>2, <1>3, <1>4, MoveInv

LEMMA CloseInv ==
    ASSUME Inv, NEW s \in Server, Close(s)
    PROVE  Inv'
<1> DEFINE r == [srv[s] EXCEPT !.closing = TRUE]
<1>1. srv \in [Server -> Goroutines] /\ srv[s] \in Goroutines
    BY DEF Inv, TypeOK
<1>2. r \in Goroutines /\ r.boot = srv[s].boot /\ r.oldwal = srv[s].oldwal
    BY <1>1 DEF Goroutines
<1>3. srv' = [srv EXCEPT ![s] = r]
    BY <1>1 DEF Close
<1>4. main = [pc |-> "close", s |-> s] /\ main' = [pc |-> "errorC", s |-> s]
    BY DEF Close, At, Goto
<1>5. UNCHANGED <<disk, leader, starts, kills, cut, boots, fatal>>
    BY DEF Close, rest
<1> HIDE DEF r
<1>6. /\ srv' \in [Server -> Goroutines]
      /\ \A t \in Server : srv'[t].boot = srv[t].boot /\ srv'[t].oldwal = srv[t].oldwal
    BY <1>1, <1>2, <1>3
<1> QED
    BY <1>4, <1>5, <1>6, MoveInv

LEMMA ReadErrorCInv ==
    ASSUME Inv, NEW s \in Server, ReadErrorC(s)
    PROVE  Inv'
<1>1. main = [pc |-> "errorC", s |-> s] /\ main' = [pc |-> "removeWal", s |-> s]
    BY DEF ReadErrorC, At, Goto
<1>2. UNCHANGED <<srv, disk, leader, starts, kills, cut, boots, fatal>>
    BY DEF ReadErrorC, rest
<1>3. srv' \in [Server -> Goroutines] /\ srv[s].boot = "stopped"
    BY <1>2 DEF ReadErrorC, Inv, TypeOK
<1> QED
    BY <1>1, <1>2, <1>3, MoveInv

LEMMA RemoveWALInv ==
    ASSUME Inv, NEW s \in Server, RemoveWAL(s)
    PROVE  Inv'
<1>1. main = [pc |-> "removeWal", s |-> s] /\ main' = [pc |-> "removeDir", s |-> s]
    BY DEF RemoveWAL, At, Goto
<1>2. UNCHANGED <<srv, leader, starts, kills, cut, boots, fatal>>
    BY DEF RemoveWAL, rest
<1>3. /\ disk' \in [Server -> Directories] /\ disk'[s].wal = "empty"
      /\ \A t \in Server \ {s} : disk'[t] = disk[t]
    BY SetWal DEF RemoveWAL
<1>4. srv[s].boot = "stopped"
    BY <1>1 DEF Inv, Current
<1>5. TypeOK'
    BY <1>1, <1>2, <1>3 DEF Inv, TypeOK
<1>6. Passed' /\ Current'
    BY <1>1, <1>2, <1>3, <1>4, ServerAssumption DEF Inv, Passed, Current, Up, Gone, Closing, Server
<1>7. Files' /\ Fatal'
    BY <1>1, <1>2, <1>3, <1>4 DEF Inv, Files, Fatal, Unsure, Down
<1> QED
    BY <1>5, <1>6, <1>7 DEF Inv

LEMMA RemoveDirInv ==
    ASSUME Inv, NEW s \in Server, RemoveDir(s)
    PROVE  Inv'
<1>1. main = [pc |-> "removeDir", s |-> s] /\ main' = [pc |-> "removeSnap", s |-> s]
    BY DEF RemoveDir, At, Goto
<1>2. UNCHANGED <<srv, leader, starts, kills, fatal>>
    BY DEF RemoveDir
<1>3. /\ disk' \in [Server -> Directories] /\ disk'[s].wal = "none"
      /\ \A t \in Server \ {s} : disk'[t] = disk[t]
    BY SetWal DEF RemoveDir
<1>4. /\ cut' \in [Server -> BOOLEAN] /\ boots' \in [Server -> Nat] /\ boots'[s] = 0
      /\ \A t \in Server \ {s} : cut'[t] = cut[t] /\ boots'[t] = boots[t]
    BY DEF RemoveDir, Inv, TypeOK
<1>5. srv[s].boot = "stopped" /\ ~fatal
    BY <1>1 DEF Inv, Current, Fatal, Down
<1>6. \A t \in Server : t > s => ~Unsure(t)
    BY <1>1 DEF Inv, Passed, Closing, Gone, Unsure
<1>7. \A t \in Server : t < s => disk[t].wal = "file"
    BY <1>1 DEF Inv, Passed, Up
<1>8. TypeOK'
    BY <1>1, <1>2, <1>3, <1>4 DEF Inv, TypeOK
<1>9. Passed' /\ Current'
    BY <1>1, <1>2, <1>3, <1>5, ServerAssumption DEF Inv, Passed, Current, Up, Gone, Closing, Server
<1>10. Files'
    <2> SUFFICES ASSUME NEW t \in Server
                 PROVE  /\ Unsure(t)' /\ disk'[t].wal # "none" => cut'[t]
                        /\ Unsure(t)' /\ disk'[t].wal = "empty" =>
                              \A u \in Server : u < t => cut'[u]
                        /\ srv'[t].boot = "replay" => (srv'[t].oldwal <=> disk'[t].wal = "file")
                        /\ srv'[t].boot = "create" =>
                              ~srv'[t].oldwal /\ disk'[t].wal = "empty" /\ boots'[t] = 0
                        /\ srv'[t].boot = "ready" /\ ~srv'[t].oldwal => boots'[t] = 0
                        /\ srv'[t].boot \in {"ready", "on"} /\ srv'[t].oldwal => cut'[t]
                        /\ disk'[t].wal = "none" => boots'[t] = 0
                        /\ boots'[t] <= 1
        BY DEF Files
    <2>1. CASE t = s
        BY <1>2, <1>3, <1>4, <1>5, <2>1 DEF Unsure
    <2>2. CASE t # s
        <3>1. t > s \/ t < s
            BY <2>2, ServerAssumption DEF Server
        <3>2. ~(Unsure(t)' /\ disk'[t].wal = "empty")
            BY <1>2, <1>3, <1>6, <1>7, <2>2, <3>1 DEF Unsure
        <3> QED
            BY <1>2, <1>3, <1>4, <2>2, <3>2 DEF Inv, Files, Unsure
    <2> QED
        BY <2>1, <2>2
<1> QED
    BY <1>2, <1>5, <1>8, <1>9, <1>10 DEF Inv, Fatal

LEMMA RemoveSnapInv ==
    ASSUME Inv, NEW s \in Server, RemoveSnap(s)
    PROVE  Inv'
<1>1. main = [pc |-> "removeSnap", s |-> s] /\ UNCHANGED <<leader, starts, kills, cut, boots>>
    BY DEF RemoveSnap, At
<1>2. disk' \in [Server -> Directories] /\ \A t \in Server : disk'[t].wal = disk[t].wal
    BY SetSnap DEF RemoveSnap
<1>3. Gone(s) /\ \A t \in Server : t > s => Gone(t)
    BY <1>1 DEF Inv, Passed, Current, Closing
<1>4. CASE s > 1
    <2>1. main' = [pc |-> "close", s |-> s - 1] /\ s - 1 \in Server /\ UNCHANGED <<srv, fatal>>
        BY <1>4, ServerAssumption DEF RemoveSnap, Goto, Server
    <2>2. TypeOK'
        BY <1>1, <1>2, <2>1 DEF Inv, TypeOK
    <2>3. Passed' /\ Current'
        BY <1>1, <1>2, <1>3, <2>1, ServerAssumption
           DEF Inv, Passed, Current, Up, Gone, Closing, Server
    <2>4. Files' /\ Fatal'
        BY <1>1, <1>2, <2>1 DEF Inv, Files, Fatal, Unsure, Down
    <2> QED
        BY <2>2, <2>3, <2>4 DEF Inv
<1>5. CASE ~(s > 1)
    <2>1. Die(FALSE)
        BY <1>5 DEF RemoveSnap
    <2>2. \A t \in Server : disk[t].wal = "none"
        BY <1>3, <1>5, ServerAssumption DEF Gone, Server
    <2> QED
        BY <1>1, <1>2, <2>1, <2>2, DieInv DEF Inv, TypeOK
<1> QED
    BY <1>4, <1>5

(* A kill or a panic, at whatever point it comes.                          *)
LEMMA CutOffInv ==
    ASSUME Inv, CutOff, kills' \in 0..MaxKills, UNCHANGED <<leader, disk, starts, boots>>
    PROVE  Inv'
<1>1. /\ cut' \in [Server -> BOOLEAN]
      /\ \A s \in Server : cut'[s] = (cut[s] \/ disk[s].wal # "none")
    BY DEF CutOff, Inv, TypeOK
<1>2. ASSUME NEW s \in Server, NEW t \in Server, disk[s].wal = "empty", t < s
      PROVE  cut'[t]
    <2>1. main.s \in Server
        BY DEF Inv, TypeOK
    <2>2. CASE Unsure(s)
        BY <1>1, <1>2, <2>2 DEF Inv, Files
    <2>3. CASE ~Unsure(s)
        <3>1. ~(s < main.s) /\ ~(s > main.s)
            BY <1>2, <2>1, <2>3 DEF Inv, TypeOK, Passed, Unsure, Up, Gone, Closing
        <3>2. s = main.s /\ main.pc # "down"
            BY <2>1, <2>3, <3>1, ServerAssumption DEF Inv, Passed, Unsure, Server
        <3>3. disk[t].wal = "file"
            BY <1>2, <3>2 DEF Inv, Passed, Up
        <3> QED
            BY <1>1, <3>3
    <2> QED
        BY <2>2, <2>3
<1> QED
    BY <1>1, <1>2, DieInv DEF CutOff, Inv, TypeOK

(* The other goroutines of a server.                                       *)
LEMMA GoroutineInv ==
    ASSUME Inv, NEW s \in Server,
           \/ SendProposal(s) \/ NodePropose(s) \/ ProposerExit(s)
           \/ StopHTTP(s) \/ Listen(s) \/ Accept(s)
    PROVE  Inv'
<1>1. srv[s] \in Goroutines
    BY DEF Inv, TypeOK
<1>2. CASE SendProposal(s)
    <2> DEFINE r == [srv[s] EXCEPT !.proposals = @ + 1]
    <2>1. r \in Goroutines /\ r.boot = srv[s].boot /\ r.oldwal = srv[s].oldwal
        BY <1>1, <1>2 DEF SendProposal, Goroutines
    <2>2. Local(s, r)
        BY <1>2 DEF SendProposal
    <2> HIDE DEF r
    <2> QED
        BY <2>1, <2>2, LocalInv
<1>3. CASE NodePropose(s)
    <2> DEFINE r == [srv[s] EXCEPT !.proposals = @ - 1]
    <2>1. r \in Goroutines /\ r.boot = srv[s].boot /\ r.oldwal = srv[s].oldwal
        BY <1>1, <1>3 DEF NodePropose, Goroutines
    <2>2. Local(s, r)
        BY <1>3 DEF NodePropose
    <2> HIDE DEF r
    <2> QED
        BY <2>1, <2>2, LocalInv
<1>4. CASE ProposerExit(s)
    <2> DEFINE r == [srv[s] EXCEPT !.stop = "stopc"]
    <2>1. r \in Goroutines /\ r.boot = srv[s].boot /\ r.oldwal = srv[s].oldwal
        BY <1>1, <1>4 DEF ProposerExit, Goroutines
    <2>2. Local(s, r)
        BY <1>4 DEF ProposerExit
    <2> HIDE DEF r
    <2> QED
        BY <2>1, <2>2, LocalInv
<1>5. CASE StopHTTP(s)
    <2> DEFINE r == [srv[s] EXCEPT !.stop = "httpstopc"]
    <2>1. r \in Goroutines /\ r.boot = srv[s].boot /\ r.oldwal = srv[s].oldwal
        BY <1>1, <1>5 DEF StopHTTP, Goroutines
    <2>2. Local(s, r)
        BY <1>5 DEF StopHTTP
    <2> HIDE DEF r
    <2> QED
        BY <2>1, <2>2, LocalInv
<1>6. CASE Listen(s)
    <2> DEFINE r == [srv[s] EXCEPT !.http = "accept"]
    <2>1. r \in Goroutines /\ r.boot = srv[s].boot /\ r.oldwal = srv[s].oldwal
        BY <1>1, <1>6 DEF Listen, Goroutines
    <2>2. Local(s, r)
        BY <1>6 DEF Listen
    <2> HIDE DEF r
    <2> QED
        BY <2>1, <2>2, LocalInv
<1>7. CASE Accept(s)
    <2> DEFINE r == [srv[s] EXCEPT !.http = "done"]
    <2>1. r \in Goroutines /\ r.boot = srv[s].boot /\ r.oldwal = srv[s].oldwal
        BY <1>1, <1>7 DEF Accept, Goroutines
    <2>2. Local(s, r)
        BY <1>7 DEF Accept
    <2> HIDE DEF r
    <2> QED
        BY <2>1, <2>2, LocalInv
<1> QED
    BY <1>2, <1>3, <1>4, <1>5, <1>6, <1>7

-----------------------------------------------------------------------------
LEMMA NextInv == Inv /\ [Next]_vars => Inv'
<1> SUFFICES ASSUME Inv, [Next]_vars PROVE Inv'
    OBVIOUS
<1>1. CASE UNCHANGED vars
    BY <1>1 DEF vars, Inv, TypeOK, Passed, Current, Files, Fatal, Up, Gone, Unsure
<1>2. CASE Start
    BY <1>2, StartInv
<1>3. CASE Signal
    BY <1>3, SignalInv
<1>4. CASE Kill
    <2>1. kills' \in 0..MaxKills
        BY <1>4, ServerAssumption DEF Kill, Inv, TypeOK
    <2> QED
        BY <1>4, <2>1, CutOffInv DEF Kill
<1>5. CASE Elect \/ LoseLeader
    <2>1. UNCHANGED <<main, srv, disk, starts, kills, cut, boots, fatal>> /\ leader' \in BOOLEAN
        BY <1>5 DEF Elect, LoseLeader
    <2> QED
        BY <2>1 DEF Inv, TypeOK, Passed, Current, Files, Fatal, Up, Gone, Unsure
<1>6. ASSUME NEW s \in Server, RunStateMachine(s) \/ SnapReady(s) PROVE Inv'
    BY <1>6, RunStateMachineInv, SnapReadyInv
<1>7. ASSUME NEW s \in Server, Boot(s) PROVE Inv'
    BY <1>7, MakeSnapDirInv, OpenWALInv, CreateWALInv, StartNodeInv DEF Boot
<1>8. ASSUME NEW s \in Server, Shutdown(s) PROVE Inv'
    BY <1>8, CloseInv, ReadErrorCInv, RemoveWALInv, RemoveDirInv, RemoveSnapInv DEF Shutdown
<1>9. ASSUME NEW s \in Server, SendClosed(s) PROVE Inv'
    <2>1. kills' \in 0..MaxKills
        BY <1>9 DEF SendClosed, Inv, TypeOK
    <2> QED
        BY <1>9, <2>1, CutOffInv DEF SendClosed
<1>10. ASSUME NEW s \in Server, Stop(s) PROVE Inv'
    BY <1>10, StopInv
<1> QED
    BY <1>1, <1>2, <1>3, <1>4, <1>5, <1>6, <1>7, <1>8, <1>9, <1>10, GoroutineInv DEF Next

(* The invariant holds of every run of the process.                        *)
THEOREM ServerInvariant == ServerSpec => []Inv
BY InitInv, NextInv, PTL DEF ServerSpec

(* What main, the goroutines and the directories of the servers can hold   *)
(* is what TypeOK says, in every state of CurpServer.                      *)
THEOREM ServerTypeCorrect == ServerSpec => []TypeOK
<1>1. Inv => TypeOK
    BY DEF Inv
<1> QED
    BY <1>1, ServerInvariant, PTL

(* However often the process is started, killed at any point of the start  *)
(* or of the close, or ended by a panic, startRaft calls raft.StartNode at *)
(* most once over the same WAL directory.                                  *)
THEOREM BootsOnce == ServerSpec => []BootstrapsOnce
<1>1. Inv => BootstrapsOnce
    BY DEF Inv, Files, BootstrapsOnce
<1> QED
    BY <1>1, ServerInvariant, PTL

(* A server that runs by raft.RestartNode, a member of no cluster, has     *)
(* files that were left by a kill or a panic: peerInfo.close leaves none   *)
(* that the next start would take for an old cluster.                      *)
THEOREM MembersUnlessCut == ServerSpec => []MemberUnlessCut
<1>1. Inv => MemberUnlessCut
    BY DEF Inv, Files, MemberUnlessCut
<1> QED
    BY <1>1, ServerInvariant, PTL

(* When openWAL ends the process, a server has a WAL directory without a   *)
(* file, and a kill or a panic is what left it.                            *)
THEOREM FatalAfterCut == ServerSpec => []FatalOnlyAfterCut
<1>1. Inv => FatalOnlyAfterCut
    BY DEF Inv, Fatal, FatalOnlyAfterCut
<1> QED
    BY <1>1, ServerInvariant, PTL
=============================================================================
