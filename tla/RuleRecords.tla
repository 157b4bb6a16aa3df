----------------------------- MODULE RuleRecords -----------------------------
(***************************************************************************)
(* The fingerprint records of the rule-context cache and the decision the  *)
(* planner takes from two of them (rule_context_cache.py).                 *)
(*                                                                         *)
(* A file of the working tree is a content [text, eol, git]: the text, how *)
(* its lines end, and what Git says about it.  A hash is the value it is   *)
(* taken of (collisions are left out).  A record holds the ordered         *)
(* instruction chain and, for every source discovered from it, its         *)
(* fingerprint and the sources it refers to.                               *)
(***************************************************************************)
EXTENDS Integers, Sequences, FiniteSets

CONSTANTS
  Paths,       \* files that discovery may look at
  GlobalPaths, \* those of them that live in the agent's home directory
  Outside,     \* instruction names that resolve outside the repository
  Refs,        \* Refs[text]: the references of a text, in order: a name each,
               \*   firm when the file has to be there (a strong rule path)
  Tries,       \* Tries[p][name]: the files the name may mean in p, as tried
  Namesakes,   \* Namesakes[name]: the indexed files of a name without directory
  Root,        \* the root instruction, which extra rules are resolved from
  Extra,       \* Extra[cfg]: the extra rules, firm references all of them
  Settings,    \* Settings[cfg]: what a record keeps of a configuration
  Nowhere,     \* what a reference means that cannot be resolved
  Opaque,      \* texts that are not UTF-8
  Blank,       \* texts that are white space only
  Size,        \* Size[text] in bytes
  MaxBytes,    \* project_doc_max_bytes
  Kind,        \* Kind[path]: rule, rule_index, schema or context
  Candidates,  \* Candidates[cfg]: per directory, the instruction names in order
  Absent       \* the content of a path where there is no file

SeqSet(s) == {s[i] : i \in DOMAIN s}

(* Every name belongs to one directory; only the first is the agent's home. *)
ASSUME RecordsAssumption ==
  /\ IsFiniteSet(Paths) /\ GlobalPaths \subseteq Paths
  /\ \A p \in Paths : Kind[p] \in {"rule", "rule_index", "schema", "context"}
  /\ \A k \in DOMAIN Candidates :
       /\ Candidates[k] \in Seq(Seq(Paths))
       /\ \A d, e \in DOMAIN Candidates[k] :
            d < e => SeqSet(Candidates[k][e]) \intersect
                       (SeqSet(Candidates[k][d]) \union GlobalPaths) = {}

Names == DOMAIN Namesakes

ASSUME ReferencesAssumption ==
  /\ Root \in Paths /\ Nowhere \notin Paths
  /\ \A text \in DOMAIN Refs : Refs[text] \in Seq([name : Names, firm : BOOLEAN])
  /\ \A k \in DOMAIN Candidates : Extra[k] \in Seq([name : Names, firm : {TRUE}])
  /\ \A p \in Paths, name \in Names : Tries[p][name] \in Seq(Paths)
  /\ \A name \in Names : Namesakes[name] \subseteq Paths

Exists(c) == c # Absent

(* _logical_content: CRLF and LF are one for text, significant otherwise. *)
Normalization(c) == IF c.text \in Opaque THEN "BYTE_EXACT" ELSE "UTF8_CRLF_LF_NORMALIZED"
SemHash(c) == IF c.text \in Opaque THEN <<c.text, c.eol>> ELSE <<c.text>>

(* _read_nonempty *)
NonEmpty(c) == Exists(c) /\ c.text \notin Blank

(***************************************************************************)
(* _instruction_chain: one directory contributes the first of its names    *)
(* that is in the repository and has text.                                 *)
(***************************************************************************)
FirstInstruction(tree, names) ==
  LET usable == {i \in DOMAIN names : names[i] \notin Outside /\ NonEmpty(tree[names[i]])}
  IN  IF usable = {} THEN <<>>
      ELSE <<names[CHOOSE i \in usable : \A j \in usable : i <= j]>>

(* Names before the chosen one that exist but resolve elsewhere. *)
OutsideSeen(tree, names) ==
  \E i \in DOMAIN names :
     /\ names[i] \in Outside /\ Exists(tree[names[i]])
     /\ \A j \in 1..(i - 1) : names[j] \in Outside \/ ~NonEmpty(tree[names[j]])

(* Two bytes separate the documents of the chain. *)
ChainBytes(tree, chain) ==
  LET project == SelectSeq(chain, LAMBDA p : p \notin GlobalPaths)
      upto[n \in 0..Len(project)] ==
        IF n = 0 THEN 0
        ELSE upto[n - 1] + Size[tree[project[n]].text] + IF n = 1 THEN 0 ELSE 2
  IN  upto[Len(project)]

ChainReasons(tree, chain) ==
  {r \in {"DISCOVERY_SIZE_LIMIT_EXCEEDED", "REPOSITORY_INSTRUCTION_CHAIN_EMPTY"} :
     IF r = "DISCOVERY_SIZE_LIMIT_EXCEEDED"
     THEN ChainBytes(tree, chain) > MaxBytes
     ELSE SeqSet(chain) \subseteq GlobalPaths}

(***************************************************************************)
(* _discover_sources: what the text of one location refers to, and what    *)
(* cannot be parsed.  Global instructions are fingerprinted but not        *)
(* followed.                                                               *)
(***************************************************************************)
SourceKind(p, chain) == IF p \in SeqSet(chain) THEN "instruction" ELSE Kind[p]

References(p, c) == IF p \in GlobalPaths \/ c.text \in Opaque THEN <<>> ELSE Refs[c.text]

TextReasons(p, c, chain) ==
  IF /\ c.text \in Opaque /\ p \notin GlobalPaths
     /\ SourceKind(p, chain) \in {"instruction", "rule_index", "context"}
  THEN {"RULE_SOURCE_ENCODING_UNSUPPORTED"} ELSE {}

(***************************************************************************)
(* _resolve_reference: the first of the tried files that is there; for a   *)
(* bare name that finds none, the only file of that name in the index      *)
(* taken when discovery began, whether it is still there or not.           *)
(***************************************************************************)
Indexed == UNION {Namesakes[name] : name \in Names}

Present(tree) == {q \in Paths : Exists(tree[q])}

Found(here, listed, p, name) ==
  LET tries == Tries[p][name]
      hits == {i \in DOMAIN tries : tries[i] \in here}
      same == Namesakes[name] \intersect listed
  IN  IF hits # {} THEN tries[CHOOSE i \in hits : \A j \in hits : i <= j]
      ELSE IF \E q \in same : same = {q} THEN CHOOSE q \in same : TRUE
      ELSE Nowhere

(* A weak reference that means nothing is passed over. *)
ReferenceReasons(ref, target) ==
  IF ref.firm /\ target = Nowhere THEN {"UNRESOLVED_REFERENCE"} ELSE {}

(* _fingerprint_source; deps is what discovery read from the same path. *)
Fingerprint(p, c, deps, chain) ==
  [kind |-> SourceKind(p, chain), norm |-> Normalization(c), sem |-> SemHash(c),
   raw |-> <<c.text, c.eol>>, git |-> c.git, deps |-> deps]

-----------------------------------------------------------------------------
(***************************************************************************)
(* _validate_record_shape, in what a record of this shape can get wrong:   *)
(* edges inside the record, the chain without repetition and exactly the   *)
(* instructions, at most one global instruction and that one first.        *)
(***************************************************************************)
ValidRecord(rec) ==
  LET sources == DOMAIN rec.src
      globals == SeqSet(rec.chain) \intersect GlobalPaths
  IN  /\ rec.chain # <<>> /\ sources # {}
      /\ Cardinality(SeqSet(rec.chain)) = Len(rec.chain)
      /\ \A p \in sources : rec.src[p].deps \subseteq sources
      /\ {p \in sources : rec.src[p].kind = "instruction"} = SeqSet(rec.chain)
      /\ Cardinality(globals) <= 1
      /\ globals # {} => rec.chain[1] \in globals

(* _dependent_closure: grow the changed set by whoever refers into it. *)
DependentClosure(changed, src) ==
  LET invalid[n \in 0..Cardinality(DOMAIN src)] ==
        IF n = 0 THEN changed
        ELSE invalid[n - 1]
             \union {p \in DOMAIN src : src[p].deps \intersect invalid[n - 1] # {}}
  IN  invalid[Cardinality(DOMAIN src)]

Plan(status, reasons, reanalyze, reuse) ==
  [status |-> status, reasons |-> reasons, reanalyze |-> reanalyze, reuse |-> reuse]

Miss(reasons, rec) == Plan("CACHE_MISS", reasons, DOMAIN rec.src, {})

(***************************************************************************)
(* compare_records for two records of the same repository, worktree and    *)
(* working directory (these select the record's file).                     *)
(***************************************************************************)
ScopeReasons(prev, cur) ==
  {r \in {"DISCOVERY_CONFIGURATION_CHANGED", "INSTRUCTION_CHAIN_CHANGED"} :
     IF r = "DISCOVERY_CONFIGURATION_CHANGED" THEN prev.cfg # cur.cfg
                                              ELSE prev.chain # cur.chain}

SourceSetReasons(prev, cur) ==
  LET old == DOMAIN prev.src
      new == DOMAIN cur.src
      hashes(rec, ps) == {rec.src[p].sem : p \in ps}
  IN  {"SOURCE_SET_CHANGED"}
      \union (IF new \ old # {} THEN {"SOURCE_ADDED"} ELSE {})
      \union (IF old \ new # {} THEN {"SOURCE_REMOVED"} ELSE {})
      \union (IF \E p \in old \intersect new : prev.src[p].deps # cur.src[p].deps
              THEN {"DEPENDENCY_GRAPH_CHANGED"} ELSE {})
      \union (IF hashes(prev, old \ new) \intersect hashes(cur, new \ old) # {}
              THEN {"SOURCE_RENAMED_OR_MOVED"} ELSE {})

ContentChanged(old, new) == old.sem # new.sem \/ old.norm # new.norm

EolOnly(old, new) ==
  /\ old.raw # new.raw /\ old.sem = new.sem
  /\ old.norm = "UTF8_CRLF_LF_NORMALIZED" /\ new.norm = "UTF8_CRLF_LF_NORMALIZED"

GitChanged(old, new) == old.git # new.git /\ ~EolOnly(old, new)

CompareSameSources(prev, cur) ==
  LET all == DOMAIN cur.src
      where(P(_, _)) == {p \in all : P(prev.src[p], cur.src[p])}
      topology == where(LAMBDA o, n : o.kind # n.kind \/ o.deps # n.deps)
      content == where(ContentChanged)
      git == where(GitChanged)
      changed == content \union git
      invalid == DependentClosure(changed, cur.src)
      reasons == (IF content # {} THEN {"RULE_CONTENT_CHANGED"} ELSE {})
                 \union (IF git # {} THEN {"RULE_GIT_STATE_CHANGED"} ELSE {})
                 \union (IF invalid # changed THEN {"TRANSITIVE_DEPENDENT_INVALIDATED"} ELSE {})
  IN  IF topology # {} THEN Miss({"DEPENDENCY_GRAPH_CHANGED"}, cur)
      ELSE IF changed \intersect SeqSet(cur.chain) # {}
      THEN Miss({"INSTRUCTION_CONTENT_OR_GIT_STATE_CHANGED",
                 "INSTRUCTION_CHAIN_FULL_INVALIDATION"}, cur)
      ELSE IF changed # {} THEN Plan("PARTIAL_INVALIDATION", reasons, invalid, all \ invalid)
      ELSE Plan("CACHE_HIT",
                {"CACHE_RECORD_VALID"}
                \union (IF where(EolOnly) # {} THEN {"EOL_REPRESENTATION_EQUIVALENT"} ELSE {}),
                {}, all)

CompareStored(prev, cur) ==
  IF ScopeReasons(prev, cur) # {} THEN Miss(ScopeReasons(prev, cur), cur)
  ELSE IF DOMAIN prev.src # DOMAIN cur.src THEN Miss(SourceSetReasons(prev, cur), cur)
  ELSE CompareSameSources(prev, cur)

-----------------------------------------------------------------------------
(***************************************************************************)
(* The record of one tree: what _capture_once returns when nothing moves   *)
(* while it runs but the files of flux.                                    *)
(***************************************************************************)
ChainOf(tree, cfg) ==
  LET dirs == Candidates[cfg]
      upto[n \in 0..Len(dirs)] ==
        IF n = 0 THEN <<>> ELSE upto[n - 1] \o FirstInstruction(tree, dirs[n])
  IN  upto[Len(dirs)]

(* What a name may mean when the files of flux come and go meanwhile. *)
Views(tree, flux) == {(Present(tree) \ flux) \union back : back \in SUBSET flux}

MayMean(tree, flux, p, name) ==
  {Found(here, listed, p, name) : here \in Views(tree, flux), listed \in Views(tree, flux)}

(* Every edge comes from a reference; one that leaves none is weak.        *)
Accounted(deps, tree, flux, p) ==
  LET refs == SeqSet(References(p, tree[p]))
  IN  /\ \A q \in deps : \E r \in refs : q \in MayMean(tree, flux, p, r.name)
      /\ \A r \in refs : \/ MayMean(tree, flux, p, r.name) \intersect deps # {}
                        \/ /\ ~r.firm
                           /\ Nowhere \in MayMean(tree, flux, p, r.name)

ExtraMeans(tree, flux, k) ==
  UNION {MayMean(tree, flux, Root, r.name) : r \in SeqSet(Extra[k])}

(* rec is the record of the tree under configuration k, each reference     *)
(* resolved with the files outside flux as they are in that tree.  Nothing *)
(* is left open when flux is empty.                                        *)
IsRecordOf(rec, k, tree, flux) ==
  LET sources == DOMAIN rec.src
      roots == SeqSet(rec.chain) \union (sources \intersect ExtraMeans(tree, flux, k))
  IN  /\ rec.cfg = Settings[k] /\ rec.chain = ChainOf(tree, k)
      /\ roots \subseteq sources /\ sources \subseteq Paths
      /\ \A r \in SeqSet(Extra[k]) : MayMean(tree, flux, Root, r.name) \intersect sources # {}
      /\ \A p \in sources :
           /\ Exists(tree[p]) /\ rec.src[p].deps \subseteq sources
           /\ rec.src[p] = Fingerprint(p, tree[p], rec.src[p].deps, rec.chain)
           /\ Accounted(rec.src[p].deps, tree, flux, p)
      /\ \A S \in SUBSET sources :
           roots \subseteq S /\ (\A p \in S : rec.src[p].deps \subseteq S) => S = sources
=============================================================================
