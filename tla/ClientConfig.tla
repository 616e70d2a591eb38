---------------------------- MODULE ClientConfig ----------------------------
(***************************************************************************)
(* The configuration file of the load client (curp_client/config.go).  A   *)
(* line is its first word, in lower case and up to a colon, and the words  *)
(* that follow.                                                            *)
(***************************************************************************)
EXTENDS Integers, Sequences, FiniteSetsExt

CONSTANTS
    Alias,                          \* the client the file is read for: "c1"
    Atoi, ParseBool, ParseDuration  \* strconv and time: words, and what they are parsed to

ASSUME ParserAssumption ==
    /\ \A w \in DOMAIN Atoi : Atoi[w] \in Int
    /\ \A w \in DOMAIN ParseBool : ParseBool[w] \in BOOLEAN
    /\ \A w \in DOMAIN ParseDuration : ParseDuration[w] \in Int

Field == {"reqs", "writes", "conflicts", "commandsize", "clones", "pendings",
          "key", "pipeline", "runtime"}

\* &Config{}
NewConfig == [f \in Field |-> IF f = "pipeline" THEN FALSE ELSE 0]

expectDuration ==
    [w \in DOMAIN ParseDuration \cup {"none"} |-> IF w = "none" THEN 0 ELSE ParseDuration[w]]

\* Any other word is an error.
Parser(f) == CASE f = "pipeline" -> ParseBool
               [] f = "runtime"  -> expectDuration
               [] OTHER          -> Atoi

\* expect succeeds.  A comment, "//" or "//5", is not in the domain either.
Expected(l) == l.args # <<>> /\ l.args[1] \in DOMAIN Parser(l.name)

\* "-- apply to <alias>": the words after the dashes.
ApplyTo(args) == Len(args) >= 3 /\ args[2] = "to"

SectionError(args) == args = <<>> \/ (args[1] = "apply" /\ ~ApplyTo(args))

\* The reader: the configuration so far, whether the section applies, and
\* whether Read has returned an error.
NewReader == [c |-> NewConfig, apply |-> TRUE, err |-> FALSE]

\* Mutant: apply is not set again by the next section.
SectionSticky(r, args) ==
    [r EXCEPT !.apply = @ /\ ~(args[1] = "apply" /\ args[3] # Alias)]

Section(r, args) == [r EXCEPT !.apply = ~(args[1] = "apply" /\ args[3] # Alias)]

\* The loop of Read.  An empty line has the name "".
ReadLine(r, l) ==
    CASE l.name = "--" ->
            IF SectionError(l.args) THEN [r EXCEPT !.err = TRUE] ELSE Section(r, l.args)
      [] l.name \in Field /\ r.apply ->
            IF Expected(l) THEN [r EXCEPT !.c[l.name] = Parser(l.name)[l.args[1]]]
                           ELSE [r EXCEPT !.err = TRUE]
      [] OTHER -> r

-----------------------------------------------------------------------------
(* What a file means, for comparison.                                      *)

Foreign(l) ==
    l.name = "--" /\ ApplyTo(l.args) /\ l.args[1] = "apply" /\ l.args[3] # Alias

\* Every section for another client before line k has ended before line k.
Applies(lines, k) ==
    \A j \in 1..k - 1 : Foreign(lines[j]) => \E i \in j + 1..k - 1 : lines[i].name = "--"

Meaning(lines, f) ==
    LET ks == {k \in DOMAIN lines : lines[k].name = f /\ Applies(lines, k)}
    IN  IF ks = {} THEN NewConfig[f] ELSE Parser(f)[lines[Max(ks)].args[1]]

Wrong(lines, k) ==
    \/ lines[k].name = "--" /\ SectionError(lines[k].args)
    \/ lines[k].name \in Field /\ Applies(lines, k) /\ ~Expected(lines[k])
=============================================================================
