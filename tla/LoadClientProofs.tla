-------------------------- MODULE LoadClientProofs --------------------------
(***************************************************************************)
(* The load client, for any configuration file, any parsers, any number of *)
(* clients, requests and connections.                                      *)
(***************************************************************************)
EXTENDS LoadClient, FiniteSetTheorems, TLAPS

(* Types, in full.                                                         *)
CallerRec ==
    [pc : {"off", "next", "fast", "inc", "slow", "return", "done", "undecoded"},
     client : Index, i : Nat, via : {"", "fast", "slow", "timeout"}, tmp : Nat]

TypesOK ==
    /\ n \in 0..MaxClients /\ local \in BOOLEAN
    /\ main \in [pc : {"read", "start", "wait", "signal", "exited", "killed", "died"},
                 i : 0..MaxClients]
    /\ wg \in Nat /\ client \in [Index -> {"none", "ok", "nil"}]
    /\ seqId \in [Index -> Nat] /\ static \in [Index -> [fast : Nat, slow : Nat]]
    /\ caller \in [Index \cup Conn -> CallerRec]
    /\ lines \in Seq(Line) /\ Len(lines) <= MaxLines
    /\ returned \in [Index -> [fast : Nat, slow : Nat, timeout : Nat]]

ReaderOK ==
    /\ reader = [c |-> reader.c, apply |-> reader.apply, err |-> reader.err]
    /\ reader.c = [f \in Field |-> reader.c[f]]
    /\ reader.apply \in BOOLEAN /\ reader.err \in BOOLEAN
    /\ \A f \in Field \ {"pipeline"} : reader.c[f] \in Int
    /\ reader.c["pipeline"] \in BOOLEAN

(* The lines that set the field f, and what the reader knows of them.      *)
Setting(f) == {k \in DOMAIN lines : lines[k].name = f /\ Applies(lines, k)}

SetTo(f, v) ==
    \/ Setting(f) = {} /\ v = NewConfig[f]
    \/ \E k \in Setting(f) : /\ \A j \in Setting(f) : j <= k
                             /\ v = Parser(f)[lines[k].args[1]]

ReadOK ==
    main.pc = "read" =>
        /\ reader.err <=> \E k \in DOMAIN lines : Wrong(lines, k)
        /\ ~reader.err => /\ reader.apply <=> Applies(lines, Len(lines) + 1)
                          /\ \A f \in Field : SetTo(f, reader.c[f])

(* main starts the clients one after the other; a loop runs from then on   *)
(* until it is done, and the WaitGroup counts those that do.               *)
Running == {i \in Index : caller[i].pc \notin {"off", "done"}}

LoopsOK ==
    /\ main.i <= n /\ (main.pc = "read" => main.i = 0)
    /\ main.pc \in {"wait", "signal", "exited"} => main.i = n
    /\ main.pc \in {"signal", "exited"} => wg = 0
    /\ \A i \in Index : client[i] # "none" <=> i < main.i
    /\ \A i \in Index : caller[i].pc # "off" <=> local /\ i < main.i
    /\ local => \A k \in Conn : caller[k].pc = "off"
    /\ wg = Cardinality(Running)

(* An id is the client and the number of one of its calls.                 *)
IdsOK ==
    /\ IsFiniteSet(ids) /\ Cardinality(ids) = calls
    /\ \A x \in ids : \E i \in Index : \E k \in 1..seqId[i] : x = <<ClientId(i), k>>
    /\ \A i \in Index : seqId[i] > 0 => client[i] # "none"

(* A counter is not ahead of the calls, and the increment of a loop is not *)
(* lost, since nobody else uses its client.                                *)
StaticOK ==
    /\ \A i \in Index, v \in {"fast", "slow"} : static[i][v] <= returned[i][v]
    /\ \A a \in Index \cup Conn :
          caller[a].pc = "inc" =>
              /\ caller[a].via \in {"fast", "slow"}
              /\ caller[a].tmp + 1 <= returned[caller[a].client][caller[a].via]

Sum(i) == static[i].fast + static[i].slow + returned[i].timeout

LoopOK(i) ==
    LET r == caller[i] IN
    /\ Sum(i) = IF r.pc \in {"slow", "return"} THEN r.i + 1 ELSE r.i
    /\ r.pc \in {"fast", "inc"} => r.client = i
    /\ r.pc = "inc" => r.tmp = static[i][r.via]
    /\ IF r.pc = "off" THEN r.i = 0 ELSE r.i <= reqNum + 1
    /\ r.pc \in {"fast", "inc", "slow", "return"} => r.i <= reqNum
    /\ r.pc = "done" => r.i = reqNum + 1
    /\ r.pc # "undecoded"

(* The inductive invariant.                                                *)
Inv ==
    /\ TypesOK /\ ReaderOK /\ ReadOK /\ LoopsOK /\ IdsOK /\ StaticOK
    /\ local => \A i \in Index : LoopOK(i)

-----------------------------------------------------------------------------
(* Read.                                                                   *)

LEMMA AppendedLine ==
    ASSUME NEW s \in Seq(Line), NEW l \in Line, NEW t, t = Append(s, l)
    PROVE  /\ t \in Seq(Line) /\ Len(t) = Len(s) + 1 /\ Len(s) \in Nat
           /\ DOMAIN s = 1..Len(s) /\ DOMAIN t = 1..Len(s) + 1
           /\ t[Len(s) + 1] = l /\ \A k \in 1..Len(s) : t[k] = s[k]
OBVIOUS

(* Which sections are open depends on the lines before.                    *)
LEMMA AppliesBefore ==
    ASSUME NEW s \in Seq(Line), NEW l \in Line, NEW t, t = Append(s, l),
           NEW k \in 1..Len(s) + 1
    PROVE  Applies(t, k) <=> Applies(s, k)
<1>1. Len(s) \in Nat /\ \A j \in 1..Len(s) : t[j] = s[j]
  BY AppendedLine
<1>2. \A j \in 1..k - 1 : t[j] = s[j] /\ \A i \in j + 1..k - 1 : t[i] = s[i]
  BY <1>1
<1> QED BY <1>2 DEF Applies

LEMMA AppliesAfter ==
    ASSUME NEW s \in Seq(Line), NEW l \in Line, NEW t, t = Append(s, l)
    PROVE  Applies(t, Len(t) + 1)
             <=> IF l.name = "--" THEN ~Foreign(l) ELSE Applies(s, Len(s) + 1)
<1> DEFINE m == Len(s)
<1>1. m \in Nat /\ Len(t) = m + 1 /\ t[m + 1] = l /\ \A k \in 1..m : t[k] = s[k]
  BY AppendedLine
<1> HIDE DEF m
<1>2. Applies(t, m + 2)
        <=> \A j \in 1..m + 1 : Foreign(t[j]) => \E i \in j + 1..m + 1 : t[i].name = "--"
  BY <1>1 DEF Applies
<1>3. Applies(s, m + 1)
        <=> \A j \in 1..m : Foreign(s[j]) => \E i \in j + 1..m : s[i].name = "--"
  BY <1>1 DEF Applies
<1>4. CASE l.name = "--"
  <2>1. \A j \in 1..m : m + 1 \in j + 1..m + 1 /\ t[m + 1].name = "--"
    BY <1>1, <1>4
  <2>2. m + 1 \in 1..m + 1 /\ m + 2..m + 1 = {} /\ (m + 1) + 1 = m + 2
    BY <1>1
  <2>3. \A j \in 1..m + 1 : j = m + 1 \/ j \in 1..m
    BY <1>1
  <2>4. Applies(t, m + 2) <=> ~Foreign(l)
    BY <1>1, <1>2, <2>1, <2>2, <2>3
  <2>5. Len(t) + 1 = m + 2
    BY <1>1
  <2> QED BY <1>4, <2>4, <2>5
<1>5. CASE l.name # "--"
  <2>1. ~Foreign(l)
    BY <1>5 DEF Foreign
  <2>2. \A j \in 1..m + 1 : j = m + 1 \/ j \in 1..m
    BY <1>1
  <2>3. ASSUME NEW j \in 1..m
        PROVE  (\E i \in j + 1..m + 1 : t[i].name = "--") <=> \E i \in j + 1..m : s[i].name = "--"
    <3>1. \A i \in j + 1..m + 1 : i = m + 1 \/ i \in j + 1..m
      BY <1>1
    <3>2. \A i \in j + 1..m : i \in j + 1..m + 1 /\ i \in 1..m
      BY <1>1
    <3> QED BY <1>1, <1>5, <3>1, <3>2
  <2>4. \A j \in 1..m : j \in 1..m + 1 /\ (Foreign(t[j]) <=> Foreign(s[j]))
    BY <1>1
  <2>5. Applies(t, m + 2) <=> Applies(s, m + 1)
    BY <1>1, <1>2, <1>3, <2>1, <2>2, <2>3, <2>4
  <2>6. Len(t) + 1 = m + 2
    BY <1>1
  <2> QED BY <1>5, <2>5, <2>6 DEF m
<1> QED BY <1>4, <1>5

(* A wrong line stays wrong, and the new line is wrong where Read fails.   *)
LEMMA WrongLines ==
    ASSUME NEW s \in Seq(Line), NEW l \in Line, NEW t, t = Append(s, l)
    PROVE  (\E k \in DOMAIN t : Wrong(t, k))
             <=> \/ \E k \in DOMAIN s : Wrong(s, k)
                 \/ l.name = "--" /\ SectionError(l.args)
                 \/ l.name \in Field /\ Applies(s, Len(s) + 1) /\ ~Expected(l)
<1> DEFINE m == Len(s)
<1>1. /\ m \in Nat /\ t[m + 1] = l /\ \A k \in 1..m : t[k] = s[k]
      /\ DOMAIN s = 1..m /\ DOMAIN t = 1..m + 1
  BY AppendedLine
<1>2. \A k \in 1..m + 1 : Applies(t, k) <=> Applies(s, k)
  BY AppliesBefore
<1> HIDE DEF m
<1>3. \A k \in 1..m : k \in 1..m + 1 /\ (Wrong(t, k) <=> Wrong(s, k))
  BY <1>1, <1>2 DEF Wrong
<1>4. m + 1 \in 1..m + 1
  BY <1>1
<1>5. Wrong(t, m + 1) <=> \/ l.name = "--" /\ SectionError(l.args)
                          \/ l.name \in Field /\ Applies(s, m + 1) /\ ~Expected(l)
  BY <1>1, <1>2, <1>4 DEF Wrong
<1>6. \A k \in 1..m + 1 : k = m + 1 \/ k \in 1..m
  BY <1>1
<1>7. (\E k \in DOMAIN t : Wrong(t, k)) <=> Wrong(t, m + 1) \/ \E k \in DOMAIN s : Wrong(s, k)
  BY <1>1, <1>3, <1>4, <1>6
<1> QED BY <1>5, <1>7 DEF m

(* What a parser makes of a word has the type of the field.                *)
LEMMA ParsedType ==
    ASSUME NEW f \in Field, NEW w \in DOMAIN Parser(f)
    PROVE  IF f = "pipeline" THEN Parser(f)[w] \in BOOLEAN ELSE Parser(f)[w] \in Int
<1>1. CASE f = "pipeline"
  BY <1>1, ParserAssumption DEF Parser
<1>2. CASE f = "runtime"
  <2>1. Parser(f) = expectDuration
    BY <1>2 DEF Parser
  <2>2. \A x \in DOMAIN expectDuration : expectDuration[x] \in Int
    BY ParserAssumption DEF expectDuration
  <2> QED BY <1>2, <2>1, <2>2
<1>3. CASE f \notin {"pipeline", "runtime"}
  <2>1. Parser(f) = Atoi
    BY <1>3 DEF Parser
  <2> QED BY <1>3, <2>1, ParserAssumption
<1> QED BY <1>1, <1>2, <1>3

LEMMA SettingNext ==
    ASSUME lines \in Seq(Line), NEW l \in Line, lines' = Append(lines, l), NEW f
    PROVE  Setting(f)' = IF l.name = f /\ Applies(lines, Len(lines) + 1)
                         THEN Setting(f) \cup {Len(lines) + 1} ELSE Setting(f)
<1>1. /\ Len(lines) \in Nat /\ lines'[Len(lines) + 1] = l
      /\ \A k \in 1..Len(lines) : lines'[k] = lines[k]
      /\ DOMAIN lines = 1..Len(lines) /\ DOMAIN lines' = 1..Len(lines) + 1
  BY AppendedLine
<1>2. \A k \in 1..Len(lines) + 1 : Applies(lines', k) <=> Applies(lines, k)
  BY AppliesBefore
<1>3. \A k \in 1..Len(lines) : k \in 1..Len(lines) + 1
  BY <1>1
<1>4. \A k \in 1..Len(lines) + 1 : k = Len(lines) + 1 \/ k \in 1..Len(lines)
  BY <1>1
<1>5. Len(lines) + 1 \in 1..Len(lines) + 1
  BY <1>1
<1>6. Setting(f)' = {k \in 1..Len(lines) + 1 : lines'[k].name = f /\ Applies(lines, k)}
  BY <1>1, <1>2 DEF Setting
<1>7. Setting(f) = {k \in 1..Len(lines) : lines[k].name = f /\ Applies(lines, k)}
  BY <1>1 DEF Setting
<1> QED BY <1>1, <1>3, <1>4, <1>5, <1>6, <1>7

LEMMA SettingBounds ==
    ASSUME lines \in Seq(Line), NEW f, NEW k \in Setting(f)
    PROVE  k \in 1..Len(lines)
BY DEF Setting

(* A line that does not set the field leaves it, one that does decides.    *)
LEMMA FieldKept ==
    ASSUME lines \in Seq(Line), NEW l \in Line, lines' = Append(lines, l), NEW f, NEW v,
           SetTo(f, v), ~(l.name = f /\ Applies(lines, Len(lines) + 1))
    PROVE  SetTo(f, v)'
<1>1. Setting(f)' = Setting(f)
  BY SettingNext
<1>2. \A k \in Setting(f) : lines'[k] = lines[k]
  BY SettingBounds, AppendedLine
<1> QED BY <1>1, <1>2 DEF SetTo

LEMMA FieldSet ==
    ASSUME lines \in Seq(Line), NEW l \in Line, lines' = Append(lines, l),
           Applies(lines, Len(lines) + 1), NEW f, f = l.name,
           NEW v, v = Parser(f)[l.args[1]]
    PROVE  SetTo(f, v)'
<1>1. Setting(f)' = Setting(f) \cup {Len(lines) + 1}
  BY SettingNext
<1>2. Len(lines) \in Nat /\ lines'[Len(lines) + 1] = l
  BY AppendedLine
<1>3. \A k \in Setting(f) : k \in 1..Len(lines)
  BY SettingBounds
<1>4. \A k \in Setting(f)' : k <= Len(lines) + 1
  BY <1>1, <1>2, <1>3
<1>5. Len(lines) + 1 \in Setting(f)'
  BY <1>1
<1> QED BY <1>2, <1>4, <1>5 DEF SetTo

LEMMA FieldsSet ==
    ASSUME Inv, NEW l \in Line, ReadNext(l), ~reader'.err
    PROVE  \A f \in Field : SetTo(f, reader.c[f])'
<1>1. /\ main.pc = "read" /\ ~reader.err /\ lines \in Seq(Line)
      /\ reader' = ReadLine(reader, l) /\ lines' = Append(lines, l)
  BY DEF ReadNext, Inv, TypesOK
<1>2. (reader.apply <=> Applies(lines, Len(lines) + 1)) /\ ReaderOK
  BY <1>1 DEF Inv, ReadOK
<1> SUFFICES ASSUME NEW f \in Field, NEW v, v = reader'.c[f]
             PROVE  SetTo(f, v)'
  OBVIOUS
<1>3. ASSUME NEW u, u = reader.c[f]
      PROVE  SetTo(f, u)
  BY <1>1, <1>3 DEF Inv, ReadOK
<1>4. CASE l.name = f /\ reader.apply
  <2>1. f # "--"
    BY DEF Field
  <2>2. reader' = IF Expected(l) THEN [reader EXCEPT !.c[f] = Parser(f)[l.args[1]]]
                                 ELSE [reader EXCEPT !.err = TRUE]
    BY <1>1, <1>4, <2>1 DEF ReadLine
  <2>3. Expected(l)
    BY <2>2, <1>2 DEF ReaderOK
  <2>4. reader'.c[f] = Parser(f)[l.args[1]]
    BY <1>2, <2>2, <2>3 DEF ReaderOK
  <2> QED BY <1>1, <1>2, <1>4, <2>4, FieldSet
<1>5. CASE ~(l.name = f /\ reader.apply)
  <2>1. reader'.c[f] = reader.c[f]
    <3>1. CASE l.name = "--"
      BY <1>1, <1>2, <3>1 DEF ReadLine, Section, ReaderOK, Field
    <3>2. CASE l.name # "--" /\ l.name \in Field /\ reader.apply
      <4>1. reader' = IF Expected(l) THEN [reader EXCEPT !.c[l.name] = Parser(l.name)[l.args[1]]]
                                     ELSE [reader EXCEPT !.err = TRUE]
        BY <1>1, <3>2 DEF ReadLine
      <4> QED BY <1>2, <1>5, <3>2, <4>1 DEF ReaderOK
    <3>3. CASE l.name # "--" /\ ~(l.name \in Field /\ reader.apply)
      BY <1>1, <3>3 DEF ReadLine
    <3> QED BY <3>1, <3>2, <3>3
  <2>2. SetTo(f, v)
    BY <1>3, <2>1
  <2> QED BY <1>1, <1>2, <1>5, <2>2, FieldKept
<1> QED BY <1>4, <1>5

LEMMA ReaderNext ==
    ASSUME Inv, NEW l \in Line, ReadNext(l)
    PROVE  ReaderOK' /\ ReadOK'
<1>1. /\ main.pc = "read" /\ ~reader.err /\ lines \in Seq(Line)
      /\ reader' = ReadLine(reader, l) /\ lines' = Append(lines, l)
  BY DEF ReadNext, Inv, TypesOK
<1>2. /\ reader.apply <=> Applies(lines, Len(lines) + 1)
      /\ ReaderOK /\ ~\E k \in DOMAIN lines : Wrong(lines, k)
  BY <1>1 DEF Inv, ReadOK
<1>3. (\E k \in DOMAIN lines' : Wrong(lines', k))
        <=> \/ l.name = "--" /\ SectionError(l.args)
            \/ l.name \in Field /\ reader.apply /\ ~Expected(l)
  BY <1>1, <1>2, WrongLines
<1>4. Applies(lines', Len(lines') + 1)
        <=> IF l.name = "--" THEN ~Foreign(l) ELSE reader.apply
  BY <1>1, <1>2, AppliesAfter
<1>5. "--" \notin Field
  BY DEF Field
<1>6. ReaderOK' /\ (reader'.err <=> \E k \in DOMAIN lines' : Wrong(lines', k))
      /\ (~reader'.err => (reader'.apply <=> Applies(lines', Len(lines') + 1)))
  <2>1. CASE l.name = "--" /\ SectionError(l.args)
    <3>1. reader' = [reader EXCEPT !.err = TRUE]
      BY <1>1, <1>5, <2>1 DEF ReadLine
    <3>2. reader'.c = reader.c /\ reader'.apply = reader.apply /\ reader'.err = TRUE
      BY <1>2, <3>1 DEF ReaderOK
    <3>3. reader' = [c |-> reader'.c, apply |-> reader'.apply, err |-> reader'.err]
      BY <1>2, <3>1, <3>2 DEF ReaderOK
    <3> QED BY <1>2, <1>3, <2>1, <3>2, <3>3 DEF ReaderOK
  <2>2. CASE l.name = "--" /\ ~SectionError(l.args)
    <3> DEFINE b == ~(l.args[1] = "apply" /\ l.args[3] # Alias)
    <3>1. reader' = [reader EXCEPT !.apply = b]
      BY <1>1, <1>5, <2>2 DEF ReadLine, Section
    <3>2. b \in BOOLEAN /\ (b <=> ~Foreign(l))
      BY <2>2 DEF Foreign, SectionError
    <3> HIDE DEF b
    <3>3. reader'.c = reader.c /\ reader'.apply = b /\ reader'.err = reader.err
      BY <1>2, <3>1 DEF ReaderOK
    <3>4. reader' = [c |-> reader'.c, apply |-> reader'.apply, err |-> reader'.err]
      BY <1>2, <3>1, <3>3 DEF ReaderOK
    <3> QED BY <1>1, <1>2, <1>3, <1>4, <1>5, <2>2, <3>2, <3>3, <3>4 DEF ReaderOK
  <2>3. CASE l.name \in Field /\ reader.apply /\ Expected(l)
    <3> DEFINE w == Parser(l.name)[l.args[1]]
    <3>1. reader' = [reader EXCEPT !.c[l.name] = w]
      BY <1>1, <1>5, <2>3 DEF ReadLine
    <3>2. IF l.name = "pipeline" THEN w \in BOOLEAN ELSE w \in Int
      BY <2>3, ParsedType DEF Expected
    <3> HIDE DEF w
    <3>3. /\ reader'.c = [reader.c EXCEPT ![l.name] = w]
          /\ reader'.apply = reader.apply /\ reader'.err = reader.err
      BY <1>2, <3>1 DEF ReaderOK
    <3>4. reader' = [c |-> reader'.c, apply |-> reader'.apply, err |-> reader'.err]
      BY <1>2, <3>1, <3>3 DEF ReaderOK
    <3>5. /\ reader'.c = [f \in Field |-> reader'.c[f]]
          /\ \A f \in Field : reader'.c[f] = IF f = l.name THEN w ELSE reader.c[f]
      BY <1>2, <3>3 DEF ReaderOK
    <3>6. "pipeline" \in Field
      BY DEF Field
    <3>7. ReaderOK'
      BY <1>2, <3>2, <3>3, <3>4, <3>5, <3>6 DEF ReaderOK
    <3> QED BY <1>1, <1>2, <1>3, <1>4, <1>5, <2>3, <3>3, <3>7
  <2>4. CASE l.name \in Field /\ reader.apply /\ ~Expected(l)
    <3>1. reader' = [reader EXCEPT !.err = TRUE]
      BY <1>1, <1>5, <2>4 DEF ReadLine
    <3>2. reader'.c = reader.c /\ reader'.apply = reader.apply /\ reader'.err = TRUE
      BY <1>2, <3>1 DEF ReaderOK
    <3>3. reader' = [c |-> reader'.c, apply |-> reader'.apply, err |-> reader'.err]
      BY <1>2, <3>1, <3>2 DEF ReaderOK
    <3> QED BY <1>2, <1>3, <2>4, <3>2, <3>3 DEF ReaderOK
  <2>5. CASE l.name # "--" /\ ~(l.name \in Field /\ reader.apply)
    <3>1. reader' = reader
      BY <1>1, <2>5 DEF ReadLine
    <3> QED BY <1>1, <1>2, <1>3, <1>4, <2>5, <3>1 DEF ReaderOK
  <2> QED BY <2>1, <2>2, <2>3, <2>4, <2>5
<1>7. ~reader'.err => \A f \in Field : SetTo(f, reader.c[f])'
  BY FieldsSet
<1> QED BY <1>6, <1>7 DEF ReadOK

-----------------------------------------------------------------------------
(* The process begins, and ends.                                           *)

Fresh ==
    /\ n \in 0..MaxClients /\ local \in BOOLEAN
    /\ \E p \in {"read", "killed", "died"} : main = [pc |-> p, i |-> 0]
    /\ reader = NewReader /\ lines = <<>>
    /\ wg = 0 /\ client = All("none") /\ caller = NoCaller
    /\ seqId = All(0) /\ static = All(NoStatic)
    /\ ids = {} /\ calls = 0 /\ returned = All(NoReturn)

LEMMA NewConfigTypes ==
    /\ NewConfig = [f \in Field |-> NewConfig[f]] /\ NewConfig["pipeline"] = FALSE
    /\ \A f \in Field \ {"pipeline"} : NewConfig[f] = 0
<1>1. "pipeline" \in Field
  BY DEF Field
<1>2. \A f \in Field \ {"pipeline"} : NewConfig[f] = 0
  <2> TAKE f \in Field \ {"pipeline"}
  <2>1. f \in Field /\ f # "pipeline"
    OBVIOUS
  <2>2. NewConfig[f] = IF f = "pipeline" THEN FALSE ELSE 0
    BY <2>1, Zenon DEF NewConfig
  <2> QED BY <2>1, <2>2, Zenon
<1>3. NewConfig["pipeline"] = FALSE
  BY <1>1, Zenon DEF NewConfig
<1>4. NewConfig = [f \in Field |-> NewConfig[f]]
  BY DEF NewConfig
<1> QED BY <1>2, <1>3, <1>4

LEMMA FreshInv == Fresh => Inv
<1> SUFFICES ASSUME Fresh PROVE Inv
  OBVIOUS
<1>1. MaxClients \in Nat \ {0} /\ MaxLines \in Nat /\ 0 \in Index /\ Index \subseteq Nat
  BY LoadAssumption DEF Index
<1>2. Idle \in CallerRec /\ Idle.pc = "off" /\ Idle.i = 0
  BY <1>1 DEF Idle, CallerRec
<1>3. PICK p \in {"read", "killed", "died"} : main = [pc |-> p, i |-> 0]
  BY DEF Fresh
<1>4. /\ \A a \in Index \cup Conn : caller[a] = Idle
      /\ caller \in [Index \cup Conn -> CallerRec]
  BY <1>2 DEF Fresh, NoCaller
<1>5. /\ static \in [Index -> [fast : Nat, slow : Nat]]
      /\ \A i \in Index : static[i] = NoStatic /\ static[i].fast = 0 /\ static[i].slow = 0
  BY DEF Fresh, All, NoStatic
<1>6. /\ returned \in [Index -> [fast : Nat, slow : Nat, timeout : Nat]]
      /\ \A i \in Index : /\ returned[i].fast = 0 /\ returned[i].slow = 0
                          /\ returned[i].timeout = 0
  BY DEF Fresh, All, NoReturn
<1>7. lines \in Seq(Line) /\ Len(lines) = 0 /\ DOMAIN lines = {}
  BY DEF Fresh
<1>8. TypesOK
  BY <1>1, <1>3, <1>4, <1>5, <1>6, <1>7 DEF Fresh, TypesOK, All
<1>9. /\ reader.c = NewConfig /\ reader.apply = TRUE /\ reader.err = FALSE
      /\ reader = [c |-> reader.c, apply |-> reader.apply, err |-> reader.err]
  BY DEF Fresh, NewReader
<1>10. ReaderOK
  <2>1. \A f \in Field \ {"pipeline"} : reader.c[f] = 0
    BY <1>9, NewConfigTypes
  <2>2. \A f \in Field \ {"pipeline"} : reader.c[f] \in Int
    BY <2>1
  <2>3. reader.c["pipeline"] = FALSE
    BY <1>9, NewConfigTypes, Zenon
  <2>4. reader.c["pipeline"] \in BOOLEAN
    BY <2>3, Zenon
  <2>5. reader.c = [f \in Field |-> reader.c[f]]
    BY <1>9, NewConfigTypes, Zenon
  <2>6. reader.apply \in BOOLEAN /\ reader.err \in BOOLEAN
    BY <1>9, Zenon
  <2> QED BY <1>9, <2>2, <2>4, <2>5, <2>6, Zenon DEF ReaderOK
<1>11. ReadOK
  <2>1. Applies(lines, Len(lines) + 1)
    BY <1>7 DEF Applies
  <2>2. \A f \in Field : SetTo(f, reader.c[f])
    BY <1>7, <1>9 DEF SetTo, Setting
  <2> QED BY <1>7, <1>9, <2>1, <2>2 DEF ReadOK
<1>12. LoopsOK
  <2>1. Running = {}
    BY <1>2, <1>4 DEF Running
  <2>2. Cardinality({}) = 0
    BY FS_EmptySet
  <2>3. main.i = 0 /\ main.pc = p
    BY <1>3
  <2>4. \A i \in Index : client[i] = "none" /\ ~(i < 0)
    BY <1>1 DEF Fresh, All
  <2> QED BY <1>2, <1>4, <2>1, <2>2, <2>3, <2>4 DEF LoopsOK, Fresh
<1>13. IdsOK
  <2>1. \A i \in Index : seqId[i] = 0
    BY DEF Fresh, All
  <2> QED BY <2>1, FS_EmptySet DEF IdsOK, Fresh
<1>14. StaticOK
  <2>1. \A i \in Index, v \in {"fast", "slow"} : static[i][v] <= returned[i][v]
    BY <1>5, <1>6
  <2> QED BY <1>2, <1>4, <2>1 DEF StaticOK
<1>15. \A i \in Index : LoopOK(i)
  BY <1>2, <1>4, <1>5, <1>6 DEF LoopOK, Sum
<1> QED BY <1>8, <1>10, <1>11, <1>12, <1>13, <1>14, <1>15 DEF Inv

LEMMA InvEnd ==
    ASSUME Inv, NEW how \in {"died", "killed"}, End(how)
    PROVE  Inv'
<1>1. Fresh'
  BY DEF End, Fresh, Inv, TypesOK
<1> QED BY <1>1, FreshInv, PTL

-----------------------------------------------------------------------------
(* main.                                                                   *)

LEMMA InvReadNext ==
    ASSUME Inv, NEW l \in Line, ReadNext(l)
    PROVE  Inv'
<1>1. /\ main.pc = "read" /\ Len(lines) < MaxLines /\ lines' = Append(lines, l)
      /\ UNCHANGED <<n, local, main, wg, client, caller, callVars>>
  BY DEF ReadNext
<1>2. TypesOK'
  <2>1. lines' \in Seq(Line) /\ Len(lines') = Len(lines) + 1
    BY <1>1 DEF Inv, TypesOK
  <2>2. Len(lines) + 1 <= MaxLines
    BY <1>1, LoadAssumption DEF Inv, TypesOK
  <2> QED BY <1>1, <2>1, <2>2 DEF Inv, TypesOK, callVars
<1>3. ReaderOK' /\ ReadOK'
  BY ReaderNext
<1>4. LoopsOK' /\ IdsOK' /\ StaticOK'
  BY <1>1 DEF Inv, LoopsOK, Running, IdsOK, ClientId, StaticOK, callVars
<1>5. ASSUME local, NEW i \in Index
      PROVE  LoopOK(i)'
  <2>1. caller[i].pc = "off" /\ LoopOK(i)
    BY <1>1, <1>5, LoadAssumption DEF Inv, LoopsOK, Index
  <2> QED BY <1>1, <2>1 DEF LoopOK, Sum, callVars
<1> QED BY <1>1, <1>2, <1>3, <1>4, <1>5 DEF Inv

LEMMA InvEndOfFile ==
    ASSUME Inv, EndOfFile
    PROVE  Inv'
<1>1. /\ main.pc = "read" /\ main' = [main EXCEPT !.pc = "start"] /\ lines' = <<>>
      /\ reader' = [NewReader EXCEPT !.c["reqs"] = reader.c["reqs"]]
      /\ UNCHANGED <<n, local, wg, client, caller, callVars>>
  BY DEF EndOfFile
<1>2. main'.pc = "start" /\ main'.i = main.i
  BY <1>1 DEF Inv, TypesOK
<1>3. TypesOK'
  <2>1. lines' \in Seq(Line) /\ Len(lines') <= MaxLines
    BY <1>1, LoadAssumption
  <2> QED BY <1>1, <2>1 DEF Inv, TypesOK, callVars
<1>4. ReaderOK'
  <2>1. reader.c["reqs"] \in Int
    BY DEF Inv, ReaderOK, Field
  <2>2. /\ reader'.c = [NewConfig EXCEPT !["reqs"] = reader.c["reqs"]]
        /\ reader'.apply = TRUE /\ reader'.err = FALSE
        /\ reader' = [c |-> reader'.c, apply |-> reader'.apply, err |-> reader'.err]
    BY <1>1 DEF NewReader
  <2>3. /\ reader'.c = [f \in Field |-> reader'.c[f]]
        /\ \A f \in Field : reader'.c[f] = IF f = "reqs" THEN reader.c["reqs"] ELSE NewConfig[f]
    BY <2>2 DEF NewConfig
  <2>4. \A f \in Field \ {"pipeline"} : reader'.c[f] \in Int
    BY <2>1, <2>3, NewConfigTypes
  <2>5. reader'.c["pipeline"] = FALSE
    BY <2>3, NewConfigTypes DEF Field
  <2> QED BY <2>2, <2>3, <2>4, <2>5 DEF ReaderOK
<1>5. ReadOK'
  BY <1>2 DEF ReadOK
<1>6. LoopsOK' /\ IdsOK' /\ StaticOK'
  BY <1>1, <1>2 DEF Inv, LoopsOK, Running, IdsOK, ClientId, StaticOK, callVars
<1>7. ASSUME local, NEW i \in Index
      PROVE  LoopOK(i)'
  <2>1. caller[i].pc = "off" /\ LoopOK(i)
    BY <1>1, <1>7, LoadAssumption DEF Inv, LoopsOK, Index
  <2> QED BY <1>1, <2>1 DEF LoopOK, Sum, callVars
<1> QED BY <1>1, <1>3, <1>4, <1>5, <1>6, <1>7 DEF Inv

LEMMA RunningFinite == Inv => IsFiniteSet(Running)
<1>1. Running \subseteq Index /\ IsFiniteSet(Index)
  <2>1. MaxClients - 1 \in Int /\ 0 \in Int
    BY LoadAssumption
  <2> QED BY <2>1, FS_Interval DEF Running, Index
<1> QED BY <1>1, FS_Subset

(* main passes from starting to waiting to the signal to its end.          *)
LEMMA InvMain ==
    ASSUME Inv, NEW p \in {"wait", "signal", "exited"}, main' = [main EXCEPT !.pc = p],
           main.pc # "read", main.i = n, p \in {"signal", "exited"} => wg = 0,
           UNCHANGED <<n, local, reader, wg, client, caller, lines, callVars>>
    PROVE  Inv'
<1>1. main'.pc = p /\ main'.i = main.i
  BY DEF Inv, TypesOK
<1>2. TypesOK'
  BY DEF Inv, TypesOK, callVars
<1>3. ReaderOK' /\ ReadOK'
  BY <1>1 DEF Inv, ReaderOK, ReadOK
<1>4. LoopsOK' /\ IdsOK' /\ StaticOK'
  BY <1>1 DEF Inv, LoopsOK, Running, IdsOK, ClientId, StaticOK, callVars
<1>5. \A i \in Index : LoopOK(i) => LoopOK(i)'
  BY DEF LoopOK, Sum, reqNum, callVars
<1> QED BY <1>2, <1>3, <1>4, <1>5 DEF Inv

LEMMA InvMainSteps ==
    ASSUME Inv, Started \/ WgWait \/ Signal
    PROVE  Inv'
<1>1. CASE Started
  BY <1>1, InvMain DEF Started
<1>2. CASE WgWait
  BY <1>2, InvMain DEF WgWait, Inv, LoopsOK
<1>3. CASE Signal
  BY <1>3, InvMain, InvEnd DEF Signal, Inv, LoopsOK
<1> QED BY <1>1, <1>2, <1>3

-----------------------------------------------------------------------------
(* Callers.                                                                *)

LEMMA OneCaller ==
    ASSUME caller \in [Index \cup Conn -> CallerRec], NEW a \in Index \cup Conn,
           NEW r \in CallerRec, caller' = [caller EXCEPT ![a] = r]
    PROVE  /\ caller' \in [Index \cup Conn -> CallerRec] /\ caller'[a] = r
           /\ \A b \in Index \cup Conn : b # a => caller'[b] = caller[b]
OBVIOUS

LEMMA IdleType == 0 \in Index /\ Idle \in CallerRec
<1>1. 0 \in Index
  BY LoadAssumption DEF Index
<1> QED BY <1>1 DEF CallerRec, Idle

(* Loops and connections are told apart.                                   *)
LEMMA LoopOrConn ==
    ASSUME Inv, NEW a \in Index \cup Conn
    PROVE  /\ a \in Index => a \notin Conn
           /\ a \in Conn /\ caller[a].pc # "off" => ~local
           /\ a \in Index /\ caller[a].pc # "off" => local
BY LoadAssumption DEF Inv, LoopsOK, Index

(* A step of one caller: what is left to show of each kind.                *)
LEMMA InvByCaller ==
    ASSUME Inv, NEW a \in Index \cup Conn, NEW r \in CallerRec,
           caller' = [caller EXCEPT ![a] = r], r.pc # "off",
           UNCHANGED <<n, local, main, reader, client, lines>>,
           caller[a].pc # "off" \/ (a \in Conn /\ ~local),
           IF a \in Index /\ r.pc = "done" THEN a \in Running /\ wg' = wg - 1 ELSE wg' = wg,
           a \in Index /\ r.pc # "done" => a \in Running,
           seqId' \in [Index -> Nat], static' \in [Index -> [fast : Nat, slow : Nat]],
           returned' \in [Index -> [fast : Nat, slow : Nat, timeout : Nat]],
           IdsOK', StaticOK', local => LoopOK(a)',
           \A j \in Index : local /\ j # a => static'[j] = static[j] /\ returned'[j] = returned[j]
    PROVE  Inv'
<1>1. /\ caller' \in [Index \cup Conn -> CallerRec] /\ caller'[a] = r
      /\ \A b \in Index \cup Conn : b # a => caller'[b] = caller[b]
  BY OneCaller DEF Inv, TypesOK
<1>2. ReaderOK' /\ ReadOK'
  BY DEF Inv, ReaderOK, ReadOK, SetTo, Setting
<1>3. Running' = IF a \in Index /\ r.pc = "done" THEN Running \ {a} ELSE Running
  BY <1>1 DEF Running
<1>4. IsFiniteSet(Running) /\ Cardinality(Running) \in Nat /\ wg = Cardinality(Running)
  BY RunningFinite, FS_CardinalityType DEF Inv, LoopsOK
<1>5. /\ wg' = Cardinality(Running') /\ wg' \in Nat /\ (wg = 0 => wg' = 0)
  <2>1. CASE a \in Index /\ r.pc = "done"
    <3>1. Cardinality(Running \ {a}) = Cardinality(Running) - 1 /\ IsFiniteSet(Running \ {a})
      BY <1>4, <2>1, FS_RemoveElement
    <3>2. Cardinality(Running \ {a}) \in Nat
      BY <3>1, FS_CardinalityType
    <3> QED BY <1>3, <1>4, <2>1, <3>1, <3>2
  <2>2. CASE ~(a \in Index /\ r.pc = "done")
    BY <1>3, <1>4, <2>2
  <2> QED BY <2>1, <2>2
<1>6. TypesOK'
  BY <1>1, <1>5 DEF Inv, TypesOK
<1>7. \A i \in Index : caller'[i].pc # "off" <=> caller[i].pc # "off"
  BY <1>1, LoopOrConn
<1>8. local => \A k \in Conn : caller'[k].pc = "off"
  BY <1>1, LoopOrConn DEF Inv, LoopsOK
<1>9. LoopsOK'
  BY <1>5, <1>7, <1>8 DEF Inv, LoopsOK
<1>10. ASSUME local, NEW i \in Index, i # a
       PROVE  LoopOK(i)'
  <2>1. LoopOK(i) /\ caller'[i] = caller[i]
    BY <1>1, <1>10 DEF Inv
  <2> QED BY <1>10, <2>1 DEF LoopOK, Sum, reqNum
<1> QED BY <1>2, <1>6, <1>9, <1>10 DEF Inv

(* Steps that do not touch the ids, or the counters.                       *)
LEMMA IdsStay ==
    ASSUME IdsOK, UNCHANGED <<n, client, seqId, ids, calls>>
    PROVE  IdsOK'
BY DEF IdsOK, ClientId

LEMMA StaticStays ==
    ASSUME Inv, NEW a \in Index \cup Conn, NEW r \in CallerRec,
           caller' = [caller EXCEPT ![a] = r], r.pc # "inc", UNCHANGED <<static, returned>>
    PROVE  StaticOK'
<1>1. /\ caller'[a] = r /\ \A b \in Index \cup Conn : b # a => caller'[b] = caller[b]
  BY OneCaller DEF Inv, TypesOK
<1> QED BY <1>1 DEF Inv, StaticOK

(* GetProposeId gives a number that the client has not used, and no other  *)
(* client has its name.                                                    *)
LEMMA FreshId ==
    ASSUME Inv, NEW i \in Index, client[i] # "none"
    PROVE  <<ClientId(i), seqId[i] + 1>> \notin ids
<1> SUFFICES ASSUME <<ClientId(i), seqId[i] + 1>> \in ids PROVE FALSE
  OBVIOUS
<1>1. PICK j \in Index : \E k \in 1..seqId[j] : <<ClientId(i), seqId[i] + 1>> = <<ClientId(j), k>>
  BY DEF Inv, IdsOK
<1>2. PICK k \in 1..seqId[j] : <<ClientId(i), seqId[i] + 1>> = <<ClientId(j), k>>
  BY <1>1
<1>3. ClientId(i) = ClientId(j) /\ k = seqId[i] + 1
  BY <1>2
<1>4. seqId[i] \in Nat /\ seqId[j] \in Nat /\ seqId[j] > 0 /\ i # j
  <2>1. seqId[i] \in Nat /\ seqId[j] \in Nat
    BY DEF Inv, TypesOK
  <2>2. seqId[i] + 1 \in 1..seqId[j]
    BY <1>3
  <2> QED BY <2>1, <2>2
<1>5. i < main.i /\ j < main.i /\ main.i <= n
  BY <1>4 DEF Inv, LoopsOK, IdsOK
<1>6. i \in Nat /\ j \in Nat /\ n \in Nat /\ main.i \in Nat
  BY LoadAssumption DEF Inv, TypesOK, Index
<1>7. n = 1
  BY <1>3, <1>4 DEF ClientId
<1> QED BY <1>4, <1>5, <1>6, <1>7

LEMMA InvCall ==
    ASSUME Inv, NEW a \in Index \cup Conn, NEW i \in Index, Call(a, i), client[i] # "none",
           \/ a = i /\ local /\ caller[i].pc = "next" /\ caller[i].i <= reqNum
           \/ a \in Conn /\ ~local /\ caller[a].pc = "off"
    PROVE  Inv'
<1>1. CASE client[i] = "nil"
  BY <1>1, InvEnd DEF Call
<1>2. CASE client[i] # "nil"
  <2>1. /\ seqId' = [seqId EXCEPT ![i] = @ + 1]
        /\ ids' = ids \cup {<<ClientId(i), seqId'[i]>>}
        /\ calls' = calls + 1
        /\ caller' = [caller EXCEPT ![a].pc = "fast", ![a].client = i]
        /\ UNCHANGED <<n, local, main, reader, wg, client, lines, static, returned>>
    BY <1>2 DEF Call
  <2>2. PICK r : r = [caller[a] EXCEPT !.pc = "fast", !.client = i]
    OBVIOUS
  <2>3. caller \in [Index \cup Conn -> CallerRec] /\ caller[a] \in CallerRec
    BY DEF Inv, TypesOK
  <2>4. r \in CallerRec /\ r.pc = "fast" /\ r.client = i /\ r.i = caller[a].i
    BY <2>2, <2>3 DEF CallerRec
  <2>5. caller' = [caller EXCEPT ![a] = r]
    BY <2>1, <2>2, <2>3
  <2>6. caller'[a] = r
    BY <2>3, <2>4, <2>5, OneCaller
  <2>7. /\ seqId' \in [Index -> Nat] /\ seqId'[i] = seqId[i] + 1 /\ seqId[i] \in Nat
        /\ \A j \in Index : j # i => seqId'[j] = seqId[j]
    BY <2>1 DEF Inv, TypesOK
  <2>8. IdsOK'
    <3>1. <<ClientId(i), seqId[i] + 1>> \notin ids
      BY FreshId
    <3>2. IsFiniteSet(ids') /\ Cardinality(ids') = calls'
      BY <2>1, <2>7, <3>1, FS_AddElement DEF Inv, IdsOK
    <3>3. \A j \in Index : ClientId(j)' = ClientId(j)
      BY <2>1 DEF ClientId
    <3>4. ASSUME NEW x \in ids
          PROVE  \E j \in Index : \E k \in 1..seqId'[j] : x = <<ClientId(j), k>>
      <4>1. PICK j \in Index : \E k \in 1..seqId[j] : x = <<ClientId(j), k>>
        BY <3>4 DEF Inv, IdsOK
      <4>2. PICK k \in 1..seqId[j] : x = <<ClientId(j), k>>
        BY <4>1
      <4>3. seqId[j] \in Nat /\ seqId'[j] \in Nat /\ seqId[j] <= seqId'[j]
        <5>1. seqId[j] \in Nat
          BY DEF Inv, TypesOK
        <5> QED BY <2>7, <5>1
      <4>4. k \in 1..seqId'[j]
        BY <4>3
      <4> QED BY <4>2, <4>4
    <3>5. ASSUME NEW x, x = <<ClientId(i), seqId'[i]>>
          PROVE  \E j \in Index : \E k \in 1..seqId'[j] : x = <<ClientId(j), k>>
      <4>1. seqId'[i] \in 1..seqId'[i]
        BY <2>7
      <4> QED BY <3>5, <4>1
    <3>6. \A x \in ids' : \E j \in Index : \E k \in 1..seqId'[j] : x = <<ClientId(j)', k>>
      <4> SUFFICES ASSUME NEW x \in ids'
                   PROVE  \E j \in Index : \E k \in 1..seqId'[j] : x = <<ClientId(j)', k>>
        OBVIOUS
      <4>1. \E j \in Index : \E k \in 1..seqId'[j] : x = <<ClientId(j), k>>
        BY <2>1, <3>4, <3>5
      <4> QED BY <3>3, <4>1
    <3>7. \A j \in Index : seqId'[j] > 0 => client'[j] # "none"
      BY <2>1, <2>7 DEF Inv, IdsOK
    <3> QED BY <3>2, <3>6, <3>7 DEF IdsOK
  <2>9. StaticOK'
    BY <2>1, <2>4, <2>5, StaticStays
  <2>10. local => LoopOK(a)'
    <3>1. ASSUME local
          PROVE  LoopOK(a)'
      <4>1. LoopOK(i) /\ a = i /\ caller[i].pc = "next" /\ caller[i].i <= reqNum
        BY <3>1 DEF Inv
      <4>2. reqNum \in Int /\ caller[i].i \in Nat
        BY <2>3, <4>1 DEF CallerRec, Inv, ReaderOK, Field, reqNum
      <4>3. Sum(a)' = Sum(a) /\ reqNum' = reqNum
        BY <2>1 DEF Sum, reqNum
      <4> QED BY <2>4, <2>6, <4>1, <4>2, <4>3 DEF LoopOK
    <3> QED BY <3>1
  <2>11. a \in Index => a \in Running
    BY LoopOrConn DEF Running
  <2>12. /\ static' \in [Index -> [fast : Nat, slow : Nat]] /\ static' = static
         /\ returned' \in [Index -> [fast : Nat, slow : Nat, timeout : Nat]] /\ returned' = returned
    BY <2>1 DEF Inv, TypesOK
  <2> QED BY <2>1, <2>4, <2>5, <2>7, <2>8, <2>9, <2>10, <2>11, <2>12, InvByCaller
<1> QED BY <1>1, <1>2

(* A caller goes on, without a change of ids or counters.                  *)
LEMMA InvGoesOn ==
    ASSUME Inv, NEW a \in Index \cup Conn, NEW r \in CallerRec,
           caller' = [caller EXCEPT ![a] = r], r.pc \notin {"off", "inc"},
           UNCHANGED <<n, local, main, reader, client, lines, callVars>>,
           caller[a].pc # "off" \/ (a \in Conn /\ ~local),
           IF a \in Index /\ r.pc = "done" THEN a \in Running /\ wg' = wg - 1 ELSE wg' = wg,
           a \in Index /\ r.pc # "done" => a \in Running,
           local => LoopOK(a)'
    PROVE  Inv'
<1>1. /\ IdsOK /\ seqId \in [Index -> Nat] /\ static \in [Index -> [fast : Nat, slow : Nat]]
      /\ returned \in [Index -> [fast : Nat, slow : Nat, timeout : Nat]]
  BY DEF Inv, TypesOK
<1>2. UNCHANGED <<seqId, static, ids, calls, returned>>
  BY DEF callVars
<1>3. IdsOK' /\ StaticOK'
  BY <1>1, <1>2, IdsStay, StaticStays
<1> QED BY <1>1, <1>2, <1>3, InvByCaller

LEMMA InvSlowRound ==
    ASSUME Inv, NEW a \in Index \cup Conn, SlowRound(a)
    PROVE  Inv'
<1>1. /\ caller[a].pc = "slow" /\ caller' = [caller EXCEPT ![a].pc = "return"]
      /\ UNCHANGED <<n, local, main, reader, wg, client, lines, callVars>>
  BY DEF SlowRound
<1>2. PICK r : r = [caller[a] EXCEPT !.pc = "return"]
  OBVIOUS
<1>3. caller \in [Index \cup Conn -> CallerRec] /\ caller[a] \in CallerRec
  BY DEF Inv, TypesOK
<1>4. r \in CallerRec /\ r.pc = "return" /\ r.i = caller[a].i
  BY <1>2, <1>3 DEF CallerRec
<1>5. caller' = [caller EXCEPT ![a] = r] /\ caller'[a] = r
  BY <1>1, <1>2, <1>3
<1>6. a \in Index => a \in Running
  BY <1>1 DEF Running
<1>7. ASSUME local
      PROVE  LoopOK(a)'
  <2>1. LoopOK(a)
    BY <1>1, <1>7, LoopOrConn DEF Inv
  <2>2. Sum(a)' = Sum(a) /\ reqNum' = reqNum
    BY <1>1 DEF Sum, reqNum, callVars
  <2>3. reqNum \in Int /\ caller[a].i \in Nat
    BY <1>3 DEF CallerRec, Inv, ReaderOK, Field, reqNum
  <2> QED BY <1>1, <1>4, <1>5, <2>1, <2>2, <2>3 DEF LoopOK
<1> QED BY <1>1, <1>4, <1>5, <1>6, <1>7, InvGoesOn

LEMMA InvMeasure ==
    ASSUME Inv, NEW i \in Index, Measure(i)
    PROVE  Inv'
<1>1. /\ caller[i].pc = "return" /\ caller' = [caller EXCEPT ![i] = AfterCall(i)]
      /\ UNCHANGED <<n, local, main, reader, wg, client, lines, callVars>>
  BY DEF Measure
<1>2. PICK r : r = AfterCall(i)
  OBVIOUS
<1>3. /\ caller \in [Index \cup Conn -> CallerRec] /\ caller[i] \in CallerRec
      /\ i \in Index \cup Conn
  BY DEF Inv, TypesOK
<1>4. r \in CallerRec /\ r.pc = "next" /\ r.i = caller[i].i + 1
  <2>1. r = [Idle EXCEPT !.pc = "next", !.i = caller[i].i + 1]
    BY <1>2 DEF AfterCall
  <2>2. caller[i].i \in Nat
    BY <1>3 DEF CallerRec
  <2>3. caller[i].i + 1 \in Nat
    BY <2>2
  <2> QED BY <2>1, <2>3, IdleType DEF CallerRec
<1>5. caller' = [caller EXCEPT ![i] = r] /\ caller'[i] = r
  BY <1>1, <1>2, <1>3
<1>6. i \in Running
  BY <1>1 DEF Running
<1>7. ASSUME local
      PROVE  LoopOK(i)'
  <2>1. LoopOK(i)
    BY <1>7 DEF Inv
  <2>2. Sum(i)' = Sum(i) /\ reqNum' = reqNum
    BY <1>1 DEF Sum, reqNum, callVars
  <2>3. reqNum \in Int /\ caller[i].i \in Nat
    BY <1>3 DEF CallerRec, Inv, ReaderOK, Field, reqNum
  <2> QED BY <1>1, <1>4, <1>5, <2>1, <2>2, <2>3 DEF LoopOK
<1> QED BY <1>1, <1>3, <1>4, <1>5, <1>6, <1>7, InvGoesOn

LEMMA InvLoopEnd ==
    ASSUME Inv, NEW i \in Index, LoopEnd(i)
    PROVE  Inv'
<1>1. /\ caller[i].pc = "next" /\ caller[i].i > reqNum /\ wg' = wg - 1
      /\ caller' = [caller EXCEPT ![i].pc = "done"]
      /\ UNCHANGED <<n, local, main, reader, client, lines, callVars>>
  BY DEF LoopEnd
<1>2. PICK r : r = [caller[i] EXCEPT !.pc = "done"]
  OBVIOUS
<1>3. /\ caller \in [Index \cup Conn -> CallerRec] /\ caller[i] \in CallerRec
      /\ i \in Index \cup Conn
  BY DEF Inv, TypesOK
<1>4. r \in CallerRec /\ r.pc = "done" /\ r.i = caller[i].i
  BY <1>2, <1>3 DEF CallerRec
<1>5. caller' = [caller EXCEPT ![i] = r] /\ caller'[i] = r
  BY <1>1, <1>2, <1>3
<1>6. i \in Running
  BY <1>1 DEF Running
<1>7. ASSUME local
      PROVE  LoopOK(i)'
  <2>1. LoopOK(i)
    BY <1>7 DEF Inv
  <2>2. Sum(i)' = Sum(i) /\ reqNum' = reqNum
    BY <1>1 DEF Sum, reqNum, callVars
  <2>3. reqNum \in Int /\ caller[i].i \in Nat
    BY <1>3 DEF CallerRec, Inv, ReaderOK, Field, reqNum
  <2> QED BY <1>1, <1>4, <1>5, <2>1, <2>2, <2>3 DEF LoopOK
<1> QED BY <1>1, <1>3, <1>4, <1>5, <1>6, <1>7, InvGoesOn

(* A connection that was not called, and one that is answered.             *)
LEMMA InvConn ==
    ASSUME Inv, NEW k \in Conn, ~local, NEW p \in {"undecoded", "return", "done"}, NEW r,
           \/ caller' = [caller EXCEPT ![k].pc = p] /\ r = [caller[k] EXCEPT !.pc = p]
           \/ caller' = [caller EXCEPT ![k] = [Idle EXCEPT !.pc = p]] /\ r = [Idle EXCEPT !.pc = p],
           UNCHANGED <<n, local, main, reader, wg, client, lines, callVars>>
    PROVE  Inv'
<1>1. /\ caller \in [Index \cup Conn -> CallerRec] /\ caller[k] \in CallerRec
      /\ k \in Index \cup Conn /\ k \notin Index
  BY LoopOrConn DEF Inv, TypesOK
<1>2. r \in CallerRec /\ r.pc = p
  <2>1. \A x \in CallerRec : [x EXCEPT !.pc = p] \in CallerRec /\ [x EXCEPT !.pc = p].pc = p
    BY DEF CallerRec
  <2> QED BY <1>1, <2>1, IdleType
<1>3. caller' = [caller EXCEPT ![k] = r]
  BY <1>1
<1> QED BY <1>1, <1>2, <1>3, InvGoesOn

LEMMA InvHandleRequest ==
    ASSUME Inv, NEW k \in Conn, NEW i \in Index, HandleGarbage(k, i) \/ HandleRequest(k, i)
    PROVE  Inv'
<1>1. ~local /\ client[i] # "none" /\ caller[k].pc = "off"
  BY DEF HandleGarbage, HandleRequest
<1>2. CASE Call(k, i)
  BY <1>1, <1>2, InvCall
<1>3. ASSUME NEW p \in {"undecoded", "return"}, caller' = [caller EXCEPT ![k].pc = p],
             UNCHANGED <<n, local, main, reader, wg, client, lines, callVars>>
      PROVE  Inv'
  <2>1. PICK r : r = [caller[k] EXCEPT !.pc = p]
    OBVIOUS
  <2> QED BY <1>1, <1>3, <2>1, InvConn
<1> QED BY <1>2, <1>3 DEF HandleGarbage, HandleRequest

LEMMA InvRespond ==
    ASSUME Inv, NEW k \in Conn, Respond(k)
    PROVE  Inv'
<1>1. /\ caller[k].pc = "return" /\ caller' = [caller EXCEPT ![k] = [Idle EXCEPT !.pc = "done"]]
      /\ UNCHANGED <<n, local, main, reader, wg, client, lines, callVars>>
  BY DEF Respond
<1>2. ~local
  BY <1>1, LoopOrConn
<1>3. PICK r : r = [Idle EXCEPT !.pc = "done"]
  OBVIOUS
<1> QED BY <1>1, <1>2, <1>3, InvConn

-----------------------------------------------------------------------------
(* The statistics.                                                         *)

(* A fast round is counted in returned, and holds a counter it has read.   *)
LEMMA InvFastRound ==
    ASSUME Inv, NEW a \in Index \cup Conn, FastRound(a)
    PROVE  Inv'
<1>1. /\ caller[a].pc = "fast"
      /\ UNCHANGED <<n, local, main, reader, wg, client, lines, seqId, static, ids, calls>>
  BY DEF FastRound
<1>2. /\ caller \in [Index \cup Conn -> CallerRec] /\ caller[a] \in CallerRec
      /\ static \in [Index -> [fast : Nat, slow : Nat]] /\ seqId \in [Index -> Nat]
      /\ returned \in [Index -> [fast : Nat, slow : Nat, timeout : Nat]]
      /\ IdsOK /\ StaticOK
  BY DEF Inv, TypesOK
<1>3. PICK i : i = caller[a].client
  OBVIOUS
<1>4. i \in Index /\ caller[a].i \in Nat
  BY <1>2, <1>3 DEF CallerRec
<1>5. IdsOK'
  BY <1>1, <1>2, IdsStay
<1>6. a \in Index => a \in Running
  BY <1>1 DEF Running
<1>7. local => LoopOK(a) /\ a \in Index /\ i = a
  BY <1>1, <1>3, LoopOrConn DEF Inv, LoopOK
<1>8. ASSUME NEW v \in {"fast", "slow"}, returned' = [returned EXCEPT ![i][v] = @ + 1],
             caller' = [caller EXCEPT ![a] = [Idle EXCEPT !.pc = "inc", !.client = i,
                           !.i = caller[a].i, !.via = v, !.tmp = static[i][v]]]
      PROVE  Inv'
  <2>1. PICK r : r = [Idle EXCEPT !.pc = "inc", !.client = i, !.i = caller[a].i,
                         !.via = v, !.tmp = static[i][v]]
    OBVIOUS
  <2>2. static[i][v] \in Nat /\ returned[i][v] \in Nat /\ static[i][v] <= returned[i][v]
    BY <1>2, <1>4 DEF StaticOK
  <2>3. /\ r \in CallerRec /\ r.pc = "inc" /\ r.client = i /\ r.i = caller[a].i
        /\ r.via = v /\ r.tmp = static[i][v]
    BY <1>4, <2>1, <2>2, IdleType DEF CallerRec
  <2>4. caller' = [caller EXCEPT ![a] = r]
    BY <1>8, <2>1
  <2>5. /\ caller'[a] = r /\ \A b \in Index \cup Conn : b # a => caller'[b] = caller[b]
    BY <1>2, <2>3, <2>4, OneCaller
  <2>6. /\ returned' \in [Index -> [fast : Nat, slow : Nat, timeout : Nat]]
        /\ returned'[i][v] = returned[i][v] + 1
        /\ returned'[i].timeout = returned[i].timeout
        /\ \A u \in {"fast", "slow"} : u # v => returned'[i][u] = returned[i][u]
        /\ \A j \in Index : j # i => returned'[j] = returned[j]
    BY <1>2, <1>4, <1>8
  <2>7. \A j \in Index, u \in {"fast", "slow"} :
           /\ returned[j][u] \in Nat /\ returned'[j][u] \in Nat /\ static[j][u] \in Nat
           /\ returned[j][u] <= returned'[j][u]
    <3>1. \A j \in Index, u \in {"fast", "slow"} : returned[j][u] \in Nat /\ static[j][u] \in Nat
      BY <1>2
    <3> QED BY <2>6, <3>1
  <2>8. StaticOK'
    <3>1. \A j \in Index, u \in {"fast", "slow"} : static'[j][u] <= returned'[j][u]
      BY <1>1, <1>2, <2>7 DEF StaticOK
    <3>2. ASSUME NEW b \in Index \cup Conn, caller'[b].pc = "inc"
          PROVE  /\ caller'[b].via \in {"fast", "slow"}
                 /\ caller'[b].tmp + 1 <= returned'[caller'[b].client][caller'[b].via]
      <4>1. CASE b = a
        BY <2>2, <2>3, <2>5, <2>6, <4>1
      <4>2. CASE b # a
        <5>1. /\ caller'[b] = caller[b] /\ caller[b].via \in {"fast", "slow"}
              /\ caller[b].tmp + 1 <= returned[caller[b].client][caller[b].via]
          BY <1>2, <2>5, <3>2, <4>2 DEF StaticOK
        <5>2. caller[b].client \in Index /\ caller[b].tmp \in Nat
          BY <1>2 DEF CallerRec
        <5>3. PICK j \in Index, u \in {"fast", "slow"} : j = caller[b].client /\ u = caller[b].via
          BY <5>1, <5>2
        <5> QED BY <2>7, <5>1, <5>2, <5>3
      <4> QED BY <4>1, <4>2
    <3> QED BY <3>1, <3>2 DEF StaticOK
  <2>9. ASSUME local
        PROVE  LoopOK(a)'
    <3>1. Sum(a)' = Sum(a) /\ reqNum' = reqNum
      BY <1>1, <1>7, <2>6, <2>9 DEF Sum, reqNum
    <3>2. reqNum \in Int
      BY DEF Inv, ReaderOK, Field, reqNum
    <3> QED BY <1>1, <1>4, <1>7, <2>3, <2>5, <2>9, <3>1, <3>2 DEF LoopOK
  <2> QED BY <1>1, <1>2, <1>5, <1>6, <1>7, <2>3, <2>4, <2>6, <2>8, <2>9, InvByCaller
<1>9. ASSUME returned' = [returned EXCEPT ![i].timeout = @ + 1],
             caller' = [caller EXCEPT ![a] = [Idle EXCEPT !.pc = "return",
                           !.i = caller[a].i, !.via = "timeout"]]
      PROVE  Inv'
  <2>1. PICK r : r = [Idle EXCEPT !.pc = "return", !.i = caller[a].i, !.via = "timeout"]
    OBVIOUS
  <2>2. r \in CallerRec /\ r.pc = "return" /\ r.i = caller[a].i
    BY <1>4, <2>1, IdleType DEF CallerRec
  <2>3. caller' = [caller EXCEPT ![a] = r]
    BY <1>9, <2>1
  <2>4. /\ caller'[a] = r /\ \A b \in Index \cup Conn : b # a => caller'[b] = caller[b]
    BY <1>2, <2>2, <2>3, OneCaller
  <2>5. /\ returned' \in [Index -> [fast : Nat, slow : Nat, timeout : Nat]]
        /\ returned'[i].timeout = returned[i].timeout + 1
        /\ returned'[i].fast = returned[i].fast /\ returned'[i].slow = returned[i].slow
        /\ \A j \in Index : j # i => returned'[j] = returned[j]
    <3>1. PICK q : q = [returned[i] EXCEPT !.timeout = @ + 1]
      OBVIOUS
    <3>2. returned' = [returned EXCEPT ![i] = q]
      BY <1>9, <3>1
    <3>3. /\ q \in [fast : Nat, slow : Nat, timeout : Nat] /\ q.timeout = returned[i].timeout + 1
          /\ q.fast = returned[i].fast /\ q.slow = returned[i].slow
      BY <1>2, <1>4, <3>1
    <3> QED BY <1>2, <1>4, <3>2, <3>3
  <2>6. \A j \in Index, u \in {"fast", "slow"} : returned'[j][u] = returned[j][u]
    BY <1>2, <2>5
  <2>7. StaticOK'
    <3>1. \A b \in Index \cup Conn : caller[b].client \in Index
      BY <1>2 DEF CallerRec
    <3>2. \A j \in Index, u \in {"fast", "slow"} : static'[j][u] <= returned'[j][u]
      BY <1>1, <1>2, <2>6 DEF StaticOK
    <3>3. ASSUME NEW b \in Index \cup Conn, caller'[b].pc = "inc"
          PROVE  /\ caller'[b].via \in {"fast", "slow"}
                 /\ caller'[b].tmp + 1 <= returned'[caller'[b].client][caller'[b].via]
      <4>1. caller'[b] = caller[b]
        BY <2>2, <2>4, <3>3
      <4>2. /\ caller[b].via \in {"fast", "slow"}
            /\ caller[b].tmp + 1 <= returned[caller[b].client][caller[b].via]
        BY <1>2, <3>3, <4>1 DEF StaticOK
      <4>3. PICK j \in Index, u \in {"fast", "slow"} : j = caller[b].client /\ u = caller[b].via
        BY <3>1, <4>2
      <4> QED BY <2>6, <4>1, <4>2, <4>3
    <3> QED BY <3>2, <3>3 DEF StaticOK
  <2>8. ASSUME local
        PROVE  LoopOK(a)'
    <3>1. returned[a].timeout \in Nat /\ static[a].fast \in Nat /\ static[a].slow \in Nat
      BY <1>2, <1>7, <2>8
    <3>2. Sum(a)' = Sum(a) + 1 /\ reqNum' = reqNum
      BY <1>1, <1>7, <2>5, <2>8, <3>1 DEF Sum, reqNum
    <3>3. reqNum \in Int
      BY DEF Inv, ReaderOK, Field, reqNum
    <3> QED BY <1>1, <1>4, <1>7, <2>2, <2>4, <2>8, <3>2, <3>3 DEF LoopOK
  <2> QED BY <1>1, <1>2, <1>5, <1>6, <1>7, <2>2, <2>3, <2>5, <2>7, <2>8, InvByCaller
<1> QED BY <1>3, <1>8, <1>9 DEF FastRound

(* The increment of a handler may overwrite another, but only downwards;   *)
(* that of a loop is the last of its client.                               *)
LEMMA InvIncStatic ==
    ASSUME Inv, NEW a \in Index \cup Conn, IncStatic(a)
    PROVE  Inv'
<1>1. /\ caller[a].pc = "inc"
      /\ static' = [static EXCEPT ![caller[a].client][caller[a].via] = caller[a].tmp + 1]
      /\ UNCHANGED <<n, local, main, reader, wg, client, lines, seqId, ids, calls, returned>>
  BY DEF IncStatic
<1>2. /\ caller \in [Index \cup Conn -> CallerRec] /\ caller[a] \in CallerRec
      /\ static \in [Index -> [fast : Nat, slow : Nat]] /\ seqId \in [Index -> Nat]
      /\ returned \in [Index -> [fast : Nat, slow : Nat, timeout : Nat]]
      /\ IdsOK /\ StaticOK
  BY DEF Inv, TypesOK
<1>3. /\ caller[a].client \in Index /\ caller[a].i \in Nat /\ caller[a].tmp \in Nat
      /\ caller[a].via \in {"fast", "slow"}
      /\ caller[a].tmp + 1 <= returned[caller[a].client][caller[a].via]
  BY <1>1, <1>2 DEF CallerRec, StaticOK
<1>4. PICK i \in Index, v \in {"fast", "slow"} : i = caller[a].client /\ v = caller[a].via
  BY <1>3
<1>5. PICK r : r = [Idle EXCEPT !.i = caller[a].i, !.pc = IF v = "fast" THEN "return" ELSE "slow"]
  OBVIOUS
<1>6. r \in CallerRec /\ r.pc \in {"return", "slow"} /\ r.i = caller[a].i
  BY <1>3, <1>5, IdleType DEF CallerRec
<1>7. caller' = [caller EXCEPT ![a] = r]
  BY <1>4, <1>5 DEF IncStatic
<1>8. /\ caller'[a] = r /\ \A b \in Index \cup Conn : b # a => caller'[b] = caller[b]
  BY <1>2, <1>6, <1>7, OneCaller
<1>9. /\ static' \in [Index -> [fast : Nat, slow : Nat]]
      /\ static'[i][v] = caller[a].tmp + 1
      /\ \A u \in {"fast", "slow"} : u # v => static'[i][u] = static[i][u]
      /\ \A j \in Index : j # i => static'[j] = static[j]
  BY <1>1, <1>2, <1>3, <1>4
<1>10. IdsOK'
  BY <1>1, <1>2, IdsStay
<1>11. a \in Index => a \in Running
  BY <1>1 DEF Running
<1>12. local => LoopOK(a) /\ a \in Index /\ i = a /\ caller[a].tmp = static[i][v]
  BY <1>1, <1>4, LoopOrConn DEF Inv, LoopOK
<1>13. StaticOK'
  <2>1. \A j \in Index, u \in {"fast", "slow"} : static'[j][u] <= returned'[j][u]
    BY <1>1, <1>2, <1>3, <1>4, <1>9 DEF StaticOK
  <2> QED BY <1>1, <1>2, <1>6, <1>8, <2>1 DEF StaticOK
<1>14. ASSUME local
       PROVE  LoopOK(a)'
  <2>1. returned[a].timeout \in Nat /\ static[a].fast \in Nat /\ static[a].slow \in Nat
    BY <1>2, <1>12, <1>14
  <2>2. Sum(a)' = Sum(a) + 1
    <3>1. CASE v = "fast"
      BY <1>1, <1>9, <1>12, <1>14, <2>1, <3>1 DEF Sum
    <3>2. CASE v = "slow"
      BY <1>1, <1>9, <1>12, <1>14, <2>1, <3>2 DEF Sum
    <3> QED BY <3>1, <3>2
  <2>3. reqNum' = reqNum /\ reqNum \in Int
    BY <1>1 DEF Inv, ReaderOK, Field, reqNum
  <2> QED BY <1>1, <1>3, <1>6, <1>8, <1>12, <1>14, <2>2, <2>3 DEF LoopOK
<1>15. /\ r.pc # "off" /\ r.pc # "done" /\ caller[a].pc # "off" /\ wg' = wg
       /\ UNCHANGED <<n, local, main, reader, client, lines>>
  BY <1>1, <1>6
<1>16. /\ seqId' \in [Index -> Nat] /\ static' \in [Index -> [fast : Nat, slow : Nat]]
       /\ returned' \in [Index -> [fast : Nat, slow : Nat, timeout : Nat]]
  BY <1>1, <1>2, <1>9
<1>17. \A j \in Index : local /\ j # a => static'[j] = static[j] /\ returned'[j] = returned[j]
  BY <1>1, <1>9, <1>12
<1> QED
  BY <1>6, <1>7, <1>10, <1>11, <1>13, <1>14, <1>15, <1>16, <1>17, InvByCaller

-----------------------------------------------------------------------------
(* main starts a client.                                                   *)

LEMMA InvStartClient ==
    ASSUME Inv, StartClient
    PROVE  Inv'
<1>1. CASE End("died")
  BY <1>1, InvEnd
<1>2. CASE ~End("died")
  <2>1. /\ main.pc = "start" /\ main.i < n
        /\ main' = [main EXCEPT !.i = @ + 1]
        /\ UNCHANGED <<n, local, reader, lines, callVars>>
        /\ \/ local /\ reqNum + 1 >= 0 /\ StartLoop(main.i)
           \/ ~local /\ UNCHANGED <<wg, caller>>
    BY <1>2 DEF StartClient
  <2>2. PICK c \in {"ok", "nil"} : client' = [client EXCEPT ![main.i] = c]
    BY <1>2 DEF StartClient
  <2>3. PICK m : m = main.i
    OBVIOUS
  <2>4. /\ m \in Nat /\ n \in 0..MaxClients /\ n \in Nat /\ m < n /\ m \in Index
        /\ Index \subseteq Nat /\ m + 1 \in 0..MaxClients
    BY <2>1, <2>3, LoadAssumption DEF Inv, TypesOK, Index
  <2>5. main'.pc = "start" /\ main'.i = m + 1 /\ main' \in
          [pc : {"read", "start", "wait", "signal", "exited", "killed", "died"}, i : 0..MaxClients]
    BY <2>1, <2>3, <2>4 DEF Inv, TypesOK
  <2>6. /\ client' \in [Index -> {"none", "ok", "nil"}] /\ client'[m] # "none"
        /\ \A i \in Index : i # m => client'[i] = client[i]
    BY <2>2, <2>3, <2>4 DEF Inv, TypesOK
  <2>7. ReaderOK' /\ ReadOK'
    BY <2>1, <2>5 DEF Inv, ReaderOK, ReadOK
  <2>8. \A i \in Index : client'[i] # "none" <=> i < m + 1
    <3>1. \A i \in Index : client[i] # "none" <=> i < m
      BY <2>3 DEF Inv, LoopsOK
    <3> QED BY <2>4, <2>6, <3>1
  <2>9. IdsOK'
    BY <2>1, <2>6 DEF Inv, IdsOK, ClientId, callVars
  <2>10. /\ IsFiniteSet(Running) /\ Cardinality(Running) \in Nat /\ wg = Cardinality(Running)
         /\ caller[m].pc = "off"
    <3>1. ~(m < m)
      BY <2>4
    <3> QED BY <2>3, <2>4, <3>1, RunningFinite, FS_CardinalityType DEF Inv, LoopsOK
  <2>11. CASE ~local
    <3>1. UNCHANGED <<wg, caller, seqId, static, ids, calls, returned>>
      BY <2>1, <2>11 DEF callVars
    <3>2. TypesOK'
      BY <2>1, <2>5, <2>6, <3>1 DEF Inv, TypesOK
    <3>3. LoopsOK'
      BY <2>1, <2>4, <2>5, <2>8, <2>11, <3>1 DEF Inv, LoopsOK, Running
    <3>4. StaticOK'
      BY <3>1 DEF Inv, StaticOK
    <3> QED BY <2>1, <2>7, <2>9, <2>11, <3>2, <3>3, <3>4 DEF Inv
  <2>12. CASE local
    <3>1. /\ wg' = wg + 1 /\ caller' = [caller EXCEPT ![m].pc = "next"] /\ reqNum + 1 >= 0
          /\ UNCHANGED <<seqId, static, ids, calls, returned>>
      BY <2>1, <2>3, <2>12 DEF StartLoop, callVars
    <3>2. PICK r : r = [caller[m] EXCEPT !.pc = "next"]
      OBVIOUS
    <3>3. /\ caller \in [Index \cup Conn -> CallerRec] /\ m \in Index \cup Conn
          /\ caller[m] \in CallerRec /\ m \notin Conn
      BY <2>4, LoopOrConn DEF Inv, TypesOK
    <3>4. r \in CallerRec /\ r.pc = "next" /\ r.i = caller[m].i
      BY <3>2, <3>3 DEF CallerRec
    <3>5. caller' = [caller EXCEPT ![m] = r]
      BY <3>1, <3>2, <3>3
    <3>6. /\ caller' \in [Index \cup Conn -> CallerRec] /\ caller'[m] = r
          /\ \A b \in Index \cup Conn : b # m => caller'[b] = caller[b]
      BY <3>3, <3>4, <3>5, OneCaller
    <3>7. Running' = Running \cup {m} /\ m \notin Running
      BY <2>4, <2>10, <3>4, <3>6 DEF Running
    <3>8. wg' = Cardinality(Running') /\ wg' \in Nat
      <4>1. Cardinality(Running \cup {m}) = Cardinality(Running) + 1
        BY <2>10, <3>7, FS_AddElement
      <4>2. wg' = Cardinality(Running) + 1 /\ Cardinality(Running) \in Nat
        BY <2>10, <3>1
      <4> QED BY <3>7, <4>1, <4>2
    <3>9. TypesOK'
      BY <2>1, <2>5, <2>6, <3>1, <3>6, <3>8 DEF Inv, TypesOK
    <3>10. LoopsOK'
      <4>1. \A i \in Index : caller'[i].pc # "off" <=> i < m + 1
        <5>1. \A i \in Index : caller[i].pc # "off" <=> i < m
          BY <2>3, <2>12 DEF Inv, LoopsOK
        <5> QED BY <2>4, <3>4, <3>6, <5>1
      <4>2. \A k \in Conn : caller'[k].pc = "off"
        BY <2>12, <3>3, <3>6 DEF Inv, LoopsOK
      <4>3. m + 1 <= n
        BY <2>4
      <4> QED BY <2>1, <2>5, <2>8, <2>12, <3>8, <4>1, <4>2, <4>3 DEF LoopsOK
    <3>11. StaticOK'
      BY <3>1, <3>3, <3>4, <3>5, StaticStays
    <3>12. ASSUME NEW i \in Index
           PROVE  LoopOK(i)'
      <4>1. LoopOK(i) /\ Sum(i)' = Sum(i) /\ reqNum' = reqNum
        BY <2>1, <2>12, <3>1 DEF Inv, Sum, reqNum
      <4>2. CASE i # m
        BY <3>1, <3>6, <4>1, <4>2 DEF LoopOK
      <4>3. CASE i = m
        BY <2>10, <3>1, <3>4, <3>6, <4>1, <4>3 DEF LoopOK
      <4> QED BY <4>2, <4>3
    <3> QED BY <2>7, <2>9, <3>9, <3>10, <3>11, <3>12 DEF Inv
  <2> QED BY <2>11, <2>12 DEF Inv, TypesOK
<1> QED BY <1>1, <1>2

-----------------------------------------------------------------------------
(* The theorems.                                                           *)

LEMMA InvNext == Inv /\ [Next]_vars => Inv'
<1> SUFFICES ASSUME Inv, [Next]_vars PROVE Inv'
  OBVIOUS
<1>1. ASSUME NEW l \in Line, ReadNext(l) PROVE Inv'
  BY <1>1, InvReadNext
<1>2. CASE ReadPanic \/ StartFails
  BY <1>2, InvEnd DEF ReadPanic, StartFails
<1>3. CASE Signal \/ Started \/ WgWait
  BY <1>3, InvMainSteps
<1>4. CASE EndOfFile \/ StartClient
  BY <1>4, InvEndOfFile, InvStartClient
<1>5. ASSUME NEW a \in Index \cup Conn,
             FastRound(a) \/ IncStatic(a) \/ SlowRound(a) \/ CallPanics(a)
      PROVE  Inv'
  BY <1>5, InvFastRound, InvIncStatic, InvSlowRound, InvEnd DEF CallPanics
<1>6. ASSUME NEW i \in Index, Measure(i) \/ LoopEnd(i)
      PROVE  Inv'
  BY <1>6, InvMeasure, InvLoopEnd
<1>7. ASSUME NEW i \in Index, NextRequest(i)
      PROVE  Inv'
  <2>1. caller[i].pc = "next" /\ caller[i].i <= reqNum /\ Call(i, i)
    BY <1>7 DEF NextRequest
  <2>2. local /\ client[i] # "none"
    BY <2>1 DEF Inv, LoopsOK
  <2> QED BY <2>1, <2>2, InvCall
<1>8. ASSUME NEW k \in Conn, NEW i \in Index, HandleGarbage(k, i) \/ HandleRequest(k, i)
      PROVE  Inv'
  BY <1>8, InvHandleRequest
<1>9. ASSUME NEW k \in Conn, Respond(k)
      PROVE  Inv'
  BY <1>9, InvRespond
<1>10. CASE UNCHANGED vars
  <2>1. UNCHANGED <<n, local, main, reader, wg, client, caller, lines,
                    seqId, static, ids, calls, returned>>
    BY <1>10 DEF vars, callVars
  <2>2. TypesOK' /\ ReaderOK'
    BY <2>1 DEF Inv, TypesOK, ReaderOK
  <2>5. LoopsOK' /\ StaticOK'
    BY <2>1 DEF Inv, LoopsOK, Running, StaticOK
  <2>6. IdsOK'
    BY <2>1, IdsStay DEF Inv
  <2>3. ReadOK'
    BY <2>1 DEF Inv, ReadOK, SetTo, Setting
  <2>4. local => \A i \in Index : LoopOK(i)'
    BY <2>1 DEF Inv, LoopOK, Sum, reqNum
  <2> QED BY <2>1, <2>2, <2>3, <2>4, <2>5, <2>6 DEF Inv
<1> QED BY <1>1, <1>2, <1>3, <1>4, <1>5, <1>6, <1>7, <1>8, <1>9, <1>10 DEF Next, MainStep

(* The invariant of the process curp_client.                               *)
THEOREM LoadInvariant == LoadSpec => []Inv
<1>1. Init => Inv
  <2>1. Init => Fresh
    BY DEF Init, Fresh
  <2> QED BY <2>1, FreshInv
<1> QED BY <1>1, InvNext, PTL DEF LoadSpec

(* The variables of main, Read, the loops and the handlers keep their      *)
(* types, and the WaitGroup stays between 0 and the number of clients.     *)
THEOREM LoadTypeCorrect == LoadSpec => []LoadTypeOK
<1>1. Inv => LoadTypeOK
  <2> SUFFICES ASSUME Inv PROVE LoadTypeOK
    OBVIOUS
  <2>1. wg \in 0..n
    <3>1. Running \subseteq 0..n - 1
      <4>1. ASSUME NEW i \in Running
            PROVE  i \in 0..n - 1
        <5>1. i \in Nat /\ n \in Nat /\ main.i \in Nat
          BY LoadAssumption DEF Inv, TypesOK, Running, Index
        <5>2. i < main.i /\ main.i <= n
          BY DEF Inv, LoopsOK, Running
        <5> QED BY <5>1, <5>2
      <4> QED BY <4>1
    <3>2. n \in Nat /\ n - 1 \in Int /\ 0 \in Int
      BY LoadAssumption DEF Inv, TypesOK
    <3>3. IsFiniteSet(0..n - 1) /\ Cardinality(0..n - 1) = n
      BY <3>2, FS_Interval
    <3>4. Cardinality(Running) <= n
      BY <3>1, <3>3, FS_Subset
    <3> QED BY <3>2, <3>4 DEF Inv, TypesOK, LoopsOK
  <2>2. ASSUME NEW a \in Index \cup Conn
        PROVE  /\ caller[a].pc \in {"off", "next", "fast", "inc", "slow", "return", "done", "undecoded"}
               /\ caller[a].client \in Index /\ caller[a].i \in Nat
    BY DEF Inv, TypesOK, CallerRec
  <2>3. DOMAIN reader.c = Field
    BY DEF Inv, ReaderOK
  <2> QED BY <2>1, <2>2, <2>3 DEF Inv, TypesOK, ReaderOK, LoadTypeOK
<1> QED BY <1>1, LoadInvariant, PTL

LEMMA MaxIs ==
    ASSUME NEW S \in SUBSET Nat, NEW k \in S, \A j \in S : j <= k
    PROVE  Max(S) = k
<1> DEFINE m == CHOOSE x \in S : \A y \in S : x >= y
<1>1. \E x \in S : \A y \in S : x >= y
  OBVIOUS
<1>2. m \in S /\ \A y \in S : m >= y
  BY <1>1, Zenon
<1>3. Max(S) = m
  BY Zenon DEF Max
<1> HIDE DEF m
<1>4. m \in Nat /\ k \in Nat
  BY <1>2
<1>5. m <= k /\ m >= k
  BY <1>2, <1>4
<1> QED BY <1>3, <1>4, <1>5

(* Read gives every field what its last line in a section for this client  *)
(* says, and fails exactly at a wrong line of one.                         *)
THEOREM ReadMeaning == LoadSpec => []ReadLastWins
<1>1. Inv => ReadLastWins
  <2> SUFFICES ASSUME Inv, main.pc = "read"
               PROVE  /\ reader.err <=> \E k \in DOMAIN lines : Wrong(lines, k)
                      /\ ~reader.err => \A f \in Field : reader.c[f] = Meaning(lines, f)
    BY DEF ReadLastWins
  <2>1. ASSUME NEW f \in Field, ~reader.err
        PROVE  reader.c[f] = Meaning(lines, f)
    <3>1. SetTo(f, reader.c[f])
      BY <2>1 DEF Inv, ReadOK
    <3>2. Meaning(lines, f) = IF Setting(f) = {} THEN NewConfig[f]
                              ELSE Parser(f)[lines[Max(Setting(f))].args[1]]
      BY Zenon DEF Meaning, Setting
    <3>3. Setting(f) \subseteq Nat
      BY DEF Setting, Inv, TypesOK
    <3>4. CASE Setting(f) = {}
      BY <3>1, <3>2, <3>4 DEF SetTo
    <3>5. CASE Setting(f) # {}
      <4>1. PICK k \in Setting(f) : /\ \A j \in Setting(f) : j <= k
                                    /\ reader.c[f] = Parser(f)[lines[k].args[1]]
        BY <3>1, <3>5 DEF SetTo
      <4>2. Max(Setting(f)) = k
        BY <3>3, <4>1, MaxIs
      <4> QED BY <3>2, <3>5, <4>1, <4>2
    <3> QED BY <3>4, <3>5
  <2> QED BY <2>1 DEF Inv, ReadOK
<1> QED BY <1>1, LoadInvariant, PTL

(* GetProposeId never gives two calls of the process the same id.          *)
THEOREM LoadIdsUnique == LoadSpec => []IdsUnique
<1>1. Inv => IdsUnique
  BY DEF Inv, IdsOK, IdsUnique
<1> QED BY <1>1, LoadInvariant, PTL

(* The statistics of static never count too many calls, and those that     *)
(* main prints of its loops account for every request.                     *)
THEOREM LoadStaticsExact == LoadSpec => []StaticsExact
<1>1. Inv => StaticsExact
  <2> SUFFICES ASSUME Inv PROVE StaticsExact
    OBVIOUS
  <2>1. \A i \in Index, v \in {"fast", "slow"} : static[i][v] <= returned[i][v]
    BY DEF Inv, StaticOK
  <2>2. ASSUME main.pc = "exited", local, NEW i \in 0..n - 1
        PROVE  static[i].fast + static[i].slow + returned[i].timeout = reqNum + 1
    <3>1. i \in Index /\ i < main.i
      BY <2>2, LoadAssumption DEF Inv, TypesOK, LoopsOK, Index
    <3>2. Running = {}
      BY <2>2, RunningFinite, FS_EmptySet DEF Inv, LoopsOK
    <3>3. caller[i].pc = "done"
      BY <2>2, <3>1, <3>2 DEF Inv, LoopsOK, Running
    <3>4. LoopOK(i)
      BY <2>2, <3>1 DEF Inv
    <3> QED BY <3>3, <3>4 DEF LoopOK, Sum
  <2> QED BY <2>1, <2>2 DEF StaticsExact
<1> QED BY <1>1, LoadInvariant, PTL
=============================================================================
