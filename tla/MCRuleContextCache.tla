------------------------- MODULE MCRuleContextCache -------------------------
(* Small working trees for RuleContextCache: a root instruction with an    *)
(* override that may appear, a rule it links, and the files that rule      *)
(* refers to, one by a link, one by a bare name in inline code.            *)
EXTENDS RuleContextCache, TLC

Symmetry == Permutations(Proc)

C(t, e, g) == [text |-> t, eol |-> e, git |-> g]
Link(n) == [name |-> n, firm |-> TRUE]
Code(n) == [name |-> n, firm |-> FALSE]

MCKind == [p \in Paths |-> "rule"]
MCCandidates == [k \in {"k0", "k1"} |-> << <<"OV", "AG">> >>]
MCSettings == [k \in {"k0", "k1"} |-> "default"]
MCTexts == {"a0", "o0", "x0", "x1", "x2", "y0", "y1", "b0"}
MCSize == [t \in MCTexts |-> 1]
MCRefs == [t \in MCTexts |->
             CASE t \in {"a0", "o0"} -> <<Link("r1")>>
               [] t = "x0" -> <<Link("r2")>>
               [] t = "x2" -> <<Code("note"), Link("r2")>>
               [] OTHER -> <<>>]

(* Two processes: a rule R1 and the file R2 it links. *)
PairPaths == {"OV", "AG", "R1", "R2"}
PairTries == [p \in Paths |-> [n \in {"r1", "r2", "note"} |->
                CASE n = "r1" -> <<"R1">> [] n = "r2" -> <<"R2">> [] OTHER -> <<>>]]
PairNamesakes == [n \in {"r1", "r2", "note"} |-> {}]
PairExtra == [k \in {"k0", "k1"} |-> <<>>]
PairInitTree == [p \in Paths |->
                   CASE p = "AG" -> C("a0", "LF", "CLEAN")
                     [] p = "R1" -> C("x0", "LF", "CLEAN")
                     [] p = "R2" -> C("y0", "LF", "CLEAN")
                     [] OTHER -> Absent]
PairEditSet == {<<"R1", C("x1", "LF", "DIRTY")>>, <<"R2", Absent>>,
                <<"OV", C("o0", "LF", "NEW")>>}

(* One process: R1 names a note in inline code, which may mean the file    *)
(* beside it or one of two elsewhere; an extra rule may mean two files.    *)
NamesPaths == {"OV", "AG", "R1", "R2", "N0", "N1", "N2"}
NamesTries == [p \in Paths |-> [n \in {"r1", "r2", "note"} |->
                 CASE n = "r1" -> <<"R1">>
                   [] n = "r2" -> <<"R2">>
                   [] OTHER -> IF p = "R1" THEN <<"N0">> ELSE <<>>]]
NamesNamesakes == [n \in {"r1", "r2", "note"} |->
                     IF n = "note" THEN {"N0", "N1", "N2"} ELSE {}]
NamesExtra == [k \in {"k0", "k1"} |-> IF k = "k0" THEN <<>> ELSE <<Link("r2")>>]
NamesInitTree == [p \in Paths |->
                    CASE p = "AG" -> C("a0", "LF", "CLEAN")
                      [] p = "R1" -> C("x2", "LF", "CLEAN")
                      [] p \in {"R2", "N1", "N2"} -> C("y0", "LF", "CLEAN")
                      [] OTHER -> Absent]
NamesEditSet == {<<"R1", C("x1", "LF", "DIRTY")>>, <<"R2", C("y1", "LF", "DIRTY")>>,
                 <<"OV", C("o0", "LF", "NEW")>>, <<"N0", C("y0", "LF", "NEW")>>,
                 <<"N2", Absent>>, <<"N2", C("y1", "LF", "NEW")>>}
=============================================================================
