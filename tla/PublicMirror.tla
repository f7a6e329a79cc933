---------------------------- MODULE PublicMirror ----------------------------
(***************************************************************************)
(* scripts/gen_public_mirror.py: the tree that is published.  A world w is *)
(* the repository: the tracked paths, what the files of its working tree   *)
(* hold, and the paths git records as executable.  A path is a sequence of *)
(* its parts.  A file holds a text, a sequence of words, or a log, a       *)
(* sequence of lines of cells; "held" is any wording that must not travel. *)
(***************************************************************************)
EXTENDS Integers, Sequences, FiniteSets, FiniteSetsExt, SequencesExt, Functions, TLC

(* The held files, by the words that cite them.                            *)
HELD_FILES ==
  [p \in {<<"docs", "06-funding-and-shuttle.md">>, <<"docs", "13-nlnet-application.md">>} |->
     IF p[2] = "06-funding-and-shuttle.md" THEN "docs/06" ELSE "docs/13"]
HELD_SECTIONS == {[path |-> <<"docs", "05-market-positioning.md">>,
                   start |-> "## 3.", end |-> "## 4."]}
HELD_FRAGMENTS ==
  {[path |-> <<"ROADMAP.md">>, anchor |-> "refusing to start jobs on this account",
    by |-> <<"refusing to start jobs on this account", "billing condition">>,
    marker |-> "billing condition"],
   [path |-> <<"scripts", "ci_local.sh">>, anchor |-> "was refused before starting",
    by |-> <<"was refused before starting", "account status">>, marker |-> "account status"],
   [path |-> <<"docs", "07-design-review.md">>, anchor |-> "EUR",
    by |-> <<"NLnet ask", "docs/06">>, marker |-> "NLnet ask"]}
WORKFLOW == <<".github", "workflows", "checks.yml">>
CHECKS_LINE  == "# The two environment differences are handled by the script"
CHECKS_RULE  == [anchor |-> "are non-starts, on",
             by |-> <<"are non-starts, on", "account status", "IN THIS MIRROR">>,
             marker |-> "IN THIS MIRROR"]
LOGS   == {<<"verification-log.tsv">>, <<"ci-local-log.tsv">>}
README == <<"README.md">>

-----------------------------------------------------------------------------
tracked(w) == {p \in w.tracked : p \in DOMAIN w.files}
Has(text, word) == \E k \in DOMAIN text : text[k] = word
Index(text, word) == Min({k \in DOMAIN text : text[k] = word})

(* How many of the repository's documents cite a held one.                 *)
citation_count(w, p) ==
  Cardinality({q \in DOMAIN w.files : /\ q[1] = "docs" /\ q # p
                                      /\ Has(w.files[q].text, HELD_FILES[p])})
STUB(w, p) == [text |-> <<"not published", HELD_FILES[p], ToString(citation_count(w, p))>>]

(* The section's heading stays, what is between it and the next goes.      *)
SectionOk(w, s) == Has(w.files[s.path].text, s.start) /\ Has(w.files[s.path].text, s.end)
CutSection(w, s) ==
  LET text == w.files[s.path].text
  IN  [text |-> SubSeq(text, 1, Index(text, s.start) - 1) \o <<s.start, "section held back">>
                \o SubSeq(text, Index(text, s.end), Len(text))]

(* re.subn: every held wording behind the anchor is replaced.              *)
Matches(text, f) ==
  {k \in 1 .. Len(text) - 1 : text[k] = f.anchor /\ text[k + 1] = "held"}
Replaced(text, f) ==
  FlattenSeq([k \in DOMAIN text |-> IF k \in Matches(text, f) THEN f.by
                                    ELSE IF k - 1 \in Matches(text, f) THEN <<>>
                                    ELSE <<text[k]>>])

(* Variant: a text in which nothing is found is left as it is.             *)
FragmentOk_silent(text, f) == Cardinality(Matches(text, f)) <= 1
FragmentOk(text, f) ==
  \/ Cardinality(Matches(text, f)) = 1
  \/ Matches(text, f) = {} /\ Has(text, f.marker)

(* The workflow's paragraph is rewritten, unless it already is.            *)
WorkflowOk(text) ==
  Has(text, CHECKS_LINE) /\ (Has(text, CHECKS_RULE.marker) \/ Matches(text, CHECKS_RULE) # {})

(* A log's head column, of every line but comments and the column names,   *)
(* says the commit is upstream's.                                          *)
Comment(line) == line[1] = <<"#">> \/ line = <<<<"">>>>
PrefixHeads(log) ==
  LET first == Min({Len(log) + 1} \cup {k \in DOMAIN log : ~Comment(log[k])})
      head(line) == IF Len(line) > 1 /\ line[2] # <<"">> /\ line[2][1] # "upstream:"
                    THEN [line EXCEPT ![2] = <<"upstream:">> \o @] ELSE line
  IN  [k \in DOMAIN log |-> IF Comment(log[k]) \/ k = first THEN log[k] ELSE head(log[k])]
Noted(log) == <<<<<<"#">>, <<"upstream">>>>>> \o PrefixHeads(log)

-----------------------------------------------------------------------------
(* A section or a fragment of a file that is not there, one that is not    *)
(* found, and a workflow that changed each stop the build.                 *)
BuildOk(w) ==
  LET read(p) == p \in DOMAIN w.files
  IN  /\ \A s \in HELD_SECTIONS  : read(s.path) /\ SectionOk(w, s)
      /\ \A f \in HELD_FRAGMENTS : f.path \in tracked(w) /\ FragmentOk(w.files[f.path].text, f)
      /\ WORKFLOW \in tracked(w) /\ WorkflowOk(w.files[WORKFLOW].text)
      /\ README \in tracked(w)

build(w) ==
  [p \in tracked(w) \cup DOMAIN HELD_FILES \cup {s.path : s \in HELD_SECTIONS} |->
     LET of == w.files[p] IN
     CASE p \in DOMAIN HELD_FILES -> STUB(w, p)
       [] \E s \in HELD_SECTIONS  : s.path = p ->
            CutSection(w, CHOOSE s \in HELD_SECTIONS : s.path = p)
       [] \E f \in HELD_FRAGMENTS : f.path = p ->
            [text |-> Replaced(of.text, CHOOSE f \in HELD_FRAGMENTS : f.path = p)]
       [] p = WORKFLOW            -> [text |-> Replaced(of.text, CHECKS_RULE)]
       [] p \in LOGS              -> [log |-> Noted(of.log)]
       [] p = README              -> [text |-> of.text \o <<"about this mirror", w.rev>>]
       [] OTHER                   -> of]

(* Variant: the mode of a file that is there already is kept.              *)
write_keeping_mode(w, files, out) ==
  [p \in DOMAIN files |-> [data |-> files[p],
                           exec |-> IF p \in DOMAIN out THEN out[p].exec ELSE p \in w.exec]] @@ out
(* Every file and its mode; what is there already and not generated stays. *)
write(w, files, out) ==
  [p \in DOMAIN files |-> [data |-> files[p], exec |-> p \in w.exec]] @@ out

transient == {".git", ".pytest_cache", "__pycache__", ".venv", "_site", "runs", "out",
              "node_modules"}
check_modes(w, files, out) ==
  {<<"mode", p>> : p \in {q \in DOMAIN files \cap DOMAIN out : out[q].exec # (q \in w.exec)}}
check(w, files, out) ==
  check_modes(w, files, out)
  \cup {<<"missing", p>> : p \in DOMAIN files \ DOMAIN out}
  \cup {<<"differs", p>> : p \in {q \in DOMAIN files \cap DOMAIN out : out[q].data # files[q]}}
  \cup {<<"not generated", p>> : p \in {q \in DOMAIN out \ DOMAIN files :
                                          Range(q) \cap transient = {}}}

(* With --commit the whole directory is committed (git add -A).            *)
commit(out) == {p \in DOMAIN out : p[1] # ".git"}

(* The mirror as a repository, for the generator to be run in.             *)
AsRepository(w, files) ==
  [tracked |-> DOMAIN files, files |-> files, exec |-> w.exec, rev |-> w.rev]

-----------------------------------------------------------------------------
(* The held wording a text carries where the rules look for it: a reworded *)
(* fragment is one behind no anchor, and is told from none at all only     *)
(* when no other match and no marker speaks for it.                        *)
Told(text, f) ==
  LET held == {k \in DOMAIN text : text[k] = "held"}
      anchored == {k + 1 : k \in Matches(text, f)}
  IN  held \subseteq anchored \/ (anchored = {} /\ ~Has(text, f.marker))
SectionTold(text, s) ==
  /\ Has(text, s.start) /\ Has(text, s.end) /\ Index(text, s.start) < Index(text, s.end)
  /\ \A k \in DOMAIN text : text[k] = "held" => k \in Index(text, s.start) .. Index(text, s.end)

(* No file the mirror carries says what is held; the held files are there, *)
(* as stubs; every head of a log is upstream's; and the generator accepts  *)
(* the tree it made, leaves its redactions as they are and prefixes no     *)
(* head twice.                                                             *)
NothingHeldTravels(w) ==
  LET files == build(w)
      again == build(AsRepository(w, files))
      heads(log) == {line[2] : line \in {l \in Range(log) : Len(l) > 1 /\ ~Comment(l)}}
  IN  (/\ BuildOk(w)
       /\ \A s \in HELD_SECTIONS  : SectionTold(w.files[s.path].text, s)
       /\ \A f \in HELD_FRAGMENTS : Told(w.files[f.path].text, f)
       /\ Told(w.files[WORKFLOW].text, CHECKS_RULE)) =>
      /\ \A p \in DOMAIN files \ LOGS : ~Has(files[p].text, "held")
      /\ DOMAIN HELD_FILES \subseteq DOMAIN files
      /\ Has(files[WORKFLOW].text, CHECKS_RULE.marker)
      /\ BuildOk(AsRepository(w, files))
      /\ \A p \in {s.path : s \in HELD_SECTIONS} \cup {f.path : f \in HELD_FRAGMENTS}
                  \cup {WORKFLOW} : again[p] = files[p]
      /\ \A p \in LOGS \cap DOMAIN files :
           \A h \in heads(Tail(again[p].log)) \ {<<"head">>, <<"upstream">>} :
             h = <<"">> \/ (h[1] = "upstream:" /\ Len(h) = 2)

(* What a check finds in a tree just written is what was there before and  *)
(* is not the generator's; of a tree a check finds nothing in, the commit  *)
(* carries the generator's files and transient ones.                       *)
MirrorSettles(w, out) ==
  LET files == build(w)
      after == write(w, files, out)
  IN  BuildOk(w) =>
      /\ check(w, files, after)
           = {<<"not generated", p>> : p \in {q \in DOMAIN out \ DOMAIN files :
                                                Range(q) \cap transient = {}}}
      /\ check(w, files, out) = {} =>
           /\ after = out
           /\ \A p \in commit(out) \ DOMAIN files : Range(p) \cap transient # {}
=============================================================================
