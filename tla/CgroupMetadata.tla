--------------------------- MODULE CgroupMetadata ---------------------------
(***************************************************************************)
(* The parsers of Code/Tools/Linux_Cgroup_Metadata.py and the decisions of *)
(* the reader that rest on them: which process a stat file describes, which*)
(* cgroup the membership names, which mount shows it.                      *)
(*                                                                         *)
(* Texts are sequences of lines, a line a record of the parts the parser   *)
(* tells apart; where the spelling itself can go wrong (escapes of a mount *)
(* path, the command in a stat file) the characters are kept.              *)
(***************************************************************************)
EXTENDS Naturals, Sequences, FiniteSets, FiniteSetsExt, SequencesExt

CONSTANT NoText  \* stands for None

Verdict(state, reason, value) == [state |-> state, reason |-> reason, value |-> value]

(***************************************************************************)
(* Membership                                                              *)
(***************************************************************************)
\* A line has an ID, a controller list, a path and possibly the deleted mark.
MembershipFault(line) ==
    IF line.id = "?" THEN "INVALID_TOKEN"
    ELSE IF line.controllers = "?" THEN "MALFORMED_RECORD"
    ELSE IF line.controllers = "none" /\ line.id # "0" THEN "MALFORMED_RECORD"
    ELSE IF line.path \in {"relative", "dots"} THEN "INVALID_PATH"
    ELSE NoText

IsV2(line) == line.id = "0" /\ line.controllers = "none"

ParseMembership(text) ==
    LET real == {i \in DOMAIN text : text[i] # NoText}
        faulty == {i \in real : MembershipFault(text[i]) # NoText}
        v2 == {i \in real : IsV2(text[i])}
        legacy == real \ v2
    IN  IF faulty # {} THEN Verdict("INVALID_VALUE", MembershipFault(text[Min(faulty)]), NoText)
        ELSE IF Cardinality(v2) > 1 THEN Verdict("INVALID_VALUE", "DUPLICATE_V2_RECORD", NoText)
        ELSE IF v2 # {} /\ legacy # {} THEN Verdict("UNSUPPORTED_LAYOUT", "HYBRID_LAYOUT", NoText)
        ELSE IF legacy # {} THEN Verdict("UNSUPPORTED_LAYOUT", "V1_ONLY", NoText)
        ELSE IF v2 = {} THEN Verdict("MISSING_MEMBERSHIP", "V2_MEMBERSHIP_MISSING", NoText)
        ELSE IF text[Min(v2)].deleted THEN Verdict("DELETED_RECORD", "MEMBERSHIP_DELETED", NoText)
        ELSE Verdict("VALID", "V2_MEMBERSHIP_PARSED", text[Min(v2)].path)

(***************************************************************************)
(* Mount paths                                                             *)
(***************************************************************************)
\* The kernel writes four characters of a path as octal escapes.
Escaped(c) ==
    IF c = " " THEN <<"\\", "0", "4", "0">>
    ELSE IF c = "tab" THEN <<"\\", "0", "1", "1">>
    ELSE IF c = "newline" THEN <<"\\", "0", "1", "2">>
    ELSE IF c = "\\" THEN <<"\\", "1", "3", "4">>
    ELSE <<c>>

Encode(path) ==
    LET upto[n \in 0..Len(path)] == IF n = 0 THEN <<>> ELSE upto[n - 1] \o Escaped(path[n])
    IN  upto[Len(path)]

Codes == {<<"0", "4", "0">>, <<"0", "1", "1">>, <<"0", "1", "2">>, <<"1", "3", "4">>}

Unescaped(code) ==
    IF code = <<"0", "4", "0">> THEN " "
    ELSE IF code = <<"0", "1", "1">> THEN "tab"
    ELSE IF code = <<"0", "1", "2">> THEN "newline"
    ELSE "\\"

CodeAt(text, i) == SubSeq(text, i + 1, Min({i + 3, Len(text)}))

InvalidEscape(text) ==
    \E i \in DOMAIN text : text[i] = "\\" /\ CodeAt(text, i) \notin Codes

\* re.sub consumes the text from the left: of two places an escape could begin
\* the first wins, and what it produces is not looked at again.
Substitute(text, acc, i) ==
    IF i < acc.next THEN acc
    ELSE IF text[i] = "\\" /\ CodeAt(text, i) \in Codes
    THEN [out |-> Append(acc.out, Unescaped(CodeAt(text, i))), next |-> i + 4]
    ELSE [out |-> Append(acc.out, text[i]), next |-> i + 1]

Decode(text) ==
    LET upto[i \in 0..Len(text)] ==
            IF i = 0 THEN [out |-> <<>>, next |-> 1] ELSE Substitute(text, upto[i - 1], i)
    IN  upto[Len(text)].out

(* Mutant: the backslashes are put back first, and what they make with the
   digits after them is decoded again. *)
DecodePathTwice(text) ==
    IF InvalidEscape(text) THEN NoText ELSE Decode(Decode(text))

DecodePath(text) == IF InvalidEscape(text) THEN NoText ELSE Decode(text)

(***************************************************************************)
(* Mountinfo                                                               *)
(***************************************************************************)
\* A line has an ID (0 is invalid), a filesystem type and the root it shows; the
\* mounts are given by the numbers of their lines.
ParseMountinfo(lines) ==
    LET faulty == {i \in DOMAIN lines : lines[i].id = 0}
        ids == [i \in DOMAIN lines |-> lines[i].id]
        mounts == {i \in DOMAIN lines : lines[i].type = "cgroup2"}
    IN  IF faulty # {} THEN Verdict("INVALID_VALUE", "INVALID_ID", NoText)
        ELSE IF ~IsInjective(ids) THEN Verdict("INVALID_VALUE", "DUPLICATE_MOUNT_ID", NoText)
        ELSE Verdict("VALID", IF mounts = {} THEN "NO_CGROUP2_MOUNTS" ELSE "MOUNTINFO_PARSED",
                     mounts)

\* A path with an empty component or a dot component has no components.
PathComponents(path) == IF \E i \in DOMAIN path : path[i] \in {"", "."} THEN NoText ELSE path

Depths(lines, mounts, member) ==
    {<<Len(lines[i].root), i>> : i \in {j \in mounts :
        /\ PathComponents(lines[j].root) # NoText
        /\ IsPrefix(lines[j].root, member)}}

Best(found) == {f \in found : \A g \in found : g[1] <= f[1]}

SelectMount(lines, path) ==
    LET parsed == ParseMountinfo(lines)
        member == PathComponents(path)
        found == IF member = NoText THEN {} ELSE Depths(lines, parsed.value, member)
        best == Best(found)
    IN  IF parsed.state # "VALID" THEN Verdict("CONTEXT_UNBOUND", "MALFORMED_RECORD", NoText)
        ELSE IF found = {} THEN Verdict("CONTEXT_UNBOUND", "FILESYSTEM_MISMATCH", NoText)
        ELSE IF Cardinality(best) > 1 THEN Verdict("AMBIGUOUS_MOUNT", "AMBIGUOUS_MOUNT", NoText)
        ELSE LET mount == lines[(CHOOSE f \in best : TRUE)[2]] IN
             Verdict("SELECTED", mount.id,
                     SubSeq(member, Len(mount.root) + 1, Len(member)))

(***************************************************************************)
(* Process stat                                                            *)
(***************************************************************************)
\* "pid (command) state ..." with the start time among the fields that follow.
StatText(command) == <<"7", " ", "(">> \o command \o <<")", " ", "S", " ", "9">>

CommandEnd(text) == Max({i \in DOMAIN text : text[i] = ")"})

\* The fields after the command; the second of them stands for the start time.
ParseStat(text) ==
    LET space == Min({i \in DOMAIN text : text[i] = " "})
        fields == {i \in DOMAIN text : i > CommandEnd(text) /\ text[i] # " "}
    IN  IF Cardinality(fields) < 2 THEN Verdict("MISMATCH", NoText, NoText)
        ELSE Verdict("VALID", SubSeq(text, 1, space - 1), text[Min(fields \ {Min(fields)})])
=============================================================================
