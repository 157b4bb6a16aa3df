----------------------------- MODULE CgroupText -----------------------------
(***************************************************************************)
(* One text of the host is parsed: the file of a resource as _observe does *)
(* through Linux_Cgroup_Values, or a metadata file of the context through  *)
(* Linux_Cgroup_Metadata. The texts are a parameter, one set per kind.     *)
(***************************************************************************)
EXTENDS CgroupValues, CgroupMetadata

CONSTANTS
    Tokens,       \* number tokens, sequences of digits
    Levels,       \* cpu.max of all levels, sequences of [quota, period]
    CpuLists,     \* CPU lists, sequences of [first, last]
    CounterFiles, \* counter files, sequences of [shape, key, value]
    Memberships,  \* membership files
    Mountinfos,   \* pairs of a mountinfo file and a membership path
    Paths,        \* mount paths, sequences of characters
    Commands      \* command names, sequences of characters

ASSUME TextAssumption ==
    /\ Tokens \subseteq Seq(Nat)
    /\ Levels \subseteq Seq((Nat \cup {NoValue}) \X Nat)
    /\ CpuLists \subseteq Seq((Nat \X Nat) \cup {<<>>})
    /\ CounterFiles \subseteq Seq([shape : STRING, key : STRING, value : Nat])
    /\ Memberships \subseteq
           Seq([id : STRING, controllers : STRING, path : STRING, deleted : BOOLEAN] \cup {NoText})
    /\ Mountinfos \subseteq Seq([id : Nat, type : STRING, root : Seq(STRING)]) \X Seq(STRING)
    /\ Paths \subseteq Seq(STRING) /\ Commands \subseteq Seq(STRING)
    /\ NoText \notin Seq(STRING)
    /\ NoText \notin {"INVALID_TOKEN", "MALFORMED_RECORD", "INVALID_PATH"}

VARIABLES input, result
vars == <<input, result>>

ParseText(in) ==
    CASE in.key = "memory.max" -> ParseU64(in.text)
      [] in.key = "cpu.max"    -> MinRatio(in.text)
      [] in.key = "cpuset"     -> ParseCpuset(in.text)
      [] in.key = "counters"   -> ParseCounters(in.text)
      [] in.key = "membership" -> ParseMembership(in.text)
      [] in.key = "mountinfo"  -> SelectMount(in.text[1], in.text[2])
      [] in.key = "path"       -> DecodePath(Encode(in.text))
      [] in.key = "stat"       -> ParseStat(StatText(in.text))

Inputs ==
    [key : {"memory.max"}, text : Tokens]
    \cup [key : {"cpu.max"}, text : Levels]
    \cup [key : {"cpuset"}, text : CpuLists]
    \cup [key : {"counters"}, text : CounterFiles]
    \cup [key : {"membership"}, text : Memberships]
    \cup [key : {"mountinfo"}, text : Mountinfos]
    \cup [key : {"path"}, text : Paths]
    \cup [key : {"stat"}, text : Commands]

Init == input \in Inputs /\ result = <<>>

Parse ==
    /\ result = <<>>
    /\ result' = <<ParseText(input)>>
    /\ UNCHANGED input

Next == Parse

Spec == Init /\ [][Next]_vars

(***************************************************************************)
(* Properties                                                              *)
(***************************************************************************)
Done(key) == result # <<>> /\ input.key = key
Result == result[1]
Lines == input.text

\* A number token is accepted exactly if it denotes a number of the width, however
\* many zeros lead it, and it then denotes the number it is read as.
NumberExact ==
    Done("memory.max") =>
        LET digits == Lines # <<>> /\ \A i \in DOMAIN Lines : Lines[i] <= 9 IN
        /\ (Result.state = "VALID") = (digits /\ Number(Lines) <= U64Max)
        /\ Result.state = "VALID" => Result.value = Number(Lines)

\* The published ratio is no greater than any finite quota of a level, is the
\* quota of one of them, and is in lowest terms.
RatioIsLeast ==
    Done("cpu.max") /\ Result.state = "AVAILABLE" =>
        LET finite == {i \in DOMAIN Lines : Lines[i][1] # NoValue}
            p == Result.value[1]
            q == Result.value[2]
        IN  /\ \A i \in finite : p * Lines[i][2] <= Lines[i][1] * q
            /\ \E i \in finite : p * Lines[i][2] = Lines[i][1] * q
            /\ Gcd(p, q) = 1

\* The CPUs a list names.
Named == UNION {Lines[i][1]..Lines[i][2] : i \in DOMAIN Lines}

\* A parsed list has exactly the CPUs the text names, as intervals in order with
\* a gap between any two, and counts them without expanding them.
CpusetExact ==
    Done("cpuset") /\ Result.state = "VALID" =>
        LET merged == Result.value.intervals IN
        /\ UNION {merged[i][1]..merged[i][2] : i \in DOMAIN merged} = Named
        /\ \A i \in 1..(Len(merged) - 1) : merged[i][2] + 1 < merged[i + 1][1]
        /\ Result.value.count = Cardinality(Named)

\* Accepted counters are one per key, each under its line and with the value of
\* its line; a key without a documented unit is kept but not mapped.
CountersUnambiguous ==
    Done("counters") /\ Result.state = "VALID" =>
        /\ IsInjective([i \in DOMAIN Result.value |-> Result.value[i].key])
        /\ \A i \in DOMAIN Lines : Lines[i].shape = "pair" =>
               LET c == Result.value[i] IN
               /\ i \in DOMAIN Result.value
               /\ c.key = Lines[i].key /\ c.value = Lines[i].value
               /\ (c.state = "MAPPED") = (c.key \in KnownKeys)

\* The parsers of Linux_Cgroup_Values return what the text denotes, or refuse it,
\* on both sides of every width, and the least ratio is exact.
ValuesExact == NumberExact /\ RatioIsLeast /\ CpusetExact /\ CountersUnambiguous

\* A membership is taken only if it is the only line there is: no second v2 line,
\* no v1 controller and no line the parser does not understand, wherever it stands.
MembershipIsAlone ==
    Done("membership") =>
        LET real == {i \in DOMAIN Lines : Lines[i] # NoText}
            alone == /\ Cardinality(real) = 1
                     /\ \A i \in real :
                            /\ IsV2(Lines[i]) /\ ~Lines[i].deleted
                            /\ Lines[i].path \notin {"relative", "dots"}
        IN  (Result.state = "VALID") = alone

\* What a mount path decodes to is the path the kernel encoded, also when it
\* holds backslashes and digits that look like another escape.
PathRoundTrip == Done("path") => Result = input.text

\* The selected mount is the one whose root is the longest prefix of the membership
\* by whole components, and no other mount is as deep; the rest of the path is
\* walked below it, so mount root and walk together are the membership.
SelectionIsDeepest ==
    Done("mountinfo") /\ Result.state = "SELECTED" =>
        LET mounts == Lines[1]
            member == Lines[2]
            chosen == {i \in DOMAIN mounts : mounts[i].id = Result.reason}
        IN  \E i \in chosen :
            /\ mounts[i].type = "cgroup2"
            /\ mounts[i].root \o Result.value = member
            /\ \A j \in DOMAIN mounts \ {i} :
                   mounts[j].type = "cgroup2" /\ IsPrefix(mounts[j].root, member)
                   => Len(mounts[j].root) < Len(mounts[i].root)

\* The start time of a process is found whatever characters its command holds.
StatIgnoresCommand == Done("stat") => Result = Verdict("VALID", <<"7">>, "9")

\* Process, cgroup and mount are named by their texts in one way only: what the
\* parsers of Linux_Cgroup_Metadata accept has no second reading.
MetadataUnambiguous ==
    MembershipIsAlone /\ PathRoundTrip /\ SelectionIsDeepest /\ StatIgnoresCommand
=============================================================================
