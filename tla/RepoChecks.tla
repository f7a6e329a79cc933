----------------------------- MODULE RepoChecks -----------------------------
(***************************************************************************)
(* The repository's checks of itself.                                      *)
(* scripts/spdx_check.py: the licence every file of the tree has, whether  *)
(* its header says so, and --apply, which writes the headers that are      *)
(* missing.  A path is its directories and the parts of its name between   *)
(* the dots; a line is what it is and the licence it names, if any.        *)
(* paper/check_claims.py: re-derives the numbers the paper prints.  A world*)
(* is the files of a checkout and what the commands print in it; a glob is *)
(* the set of the paths it would match, a value is what is written, with   *)
(* the number it reads as where it reads as one.                           *)
(***************************************************************************)
EXTENDS Integers, Sequences, FiniteSets, SequencesExt, Functions, TLC

HW == "CERN-OHL-W-2.0"
SW == "Apache-2.0"
DOC == "CC-BY-4.0"
NONE == "none"

path(dirs, parts) == [dirs |-> dirs, parts |-> parts]
THIRD_PARTY ==
  [p \in {path(<<"hw", "soc", "rvformal", "insns">>, <<n, "v">>) : n \in {"insn_div", "insn_rem"}}
     |-> "ISC"]
UNTAGGED_PREFIXES == {"tt", "LICENSES", ".reuse"}
UNTAGGED_SUFFIXES ==
  {"json", "md", "csv", "tsv", "sha256", "svg", "gitignore", "txt", "ini"}
UNTAGGED_NAMES == {<<"LICENSE">>, <<"pytest", "ini">>, <<"", "gitignore">>}
HASH == "#"
SLASH == "//"
BLOCK == "/*"
PCT == "%"
SYNTAX ==
  [s \in {"v", "vh", "sv", "c", "h", "S", "ld", "sdc", "sby", "tcl", "py", "sh", "mk", "yml",
          "yaml", "awk", "cfg", "ys", "tex", "bib"} |->
     IF s \in {"v", "vh", "sv", "c", "h", "S"} THEN SLASH
     ELSE IF s = "ld" THEN BLOCK ELSE IF s \in {"tex", "bib"} THEN PCT ELSE HASH]
DIR_IS_DOCUMENT == {"paper", "paper-residual", "paper-design", "thesis", "paper-soc"}
DOCUMENT_SUFFIXES == {"tex", "bib", "yaml", "yml", "csv", "tsv"}
HW_SUFFIXES == {"v", "vh", "sv", "sdc", "sby", "tcl", "ys"}
HEADER_LINES == 12

top(p) == IF p.dirs = <<>> THEN "" ELSE p.dirs[1]
is_makefile(p) == p.parts[1] = "Makefile"
(* A template has the suffix of what it is a template of.                  *)
strip_template(p) ==
  LET n == Len(p.parts)
  IN  IF is_makefile(p) THEN "mk"
      ELSE IF n >= 3 /\ p.parts[n] = "in" THEN p.parts[n - 1]
      ELSE IF n >= 2 THEN p.parts[n] ELSE ""
untagged(p) ==
  \/ top(p) \in UNTAGGED_PREFIXES
  \/ p.parts \in UNTAGGED_NAMES
  \/ Len(p.parts) >= 2 /\ Last(p.parts) \in UNTAGGED_SUFFIXES /\ ~is_makefile(p)
classify(p) ==
  LET suf == strip_template(p)
  IN  IF p \in DOMAIN THIRD_PARTY THEN THIRD_PARTY[p]
      ELSE IF untagged(p) \/ suf \notin DOMAIN SYNTAX THEN NONE
      ELSE IF top(p) \in DIR_IS_DOCUMENT /\ suf \in DOCUMENT_SUFFIXES THEN DOC
      ELSE IF suf \in HW_SUFFIXES THEN HW ELSE SW

-----------------------------------------------------------------------------
line(is, tag) == [is |-> is, tag |-> tag]
blank == line("blank", NONE)
comment(l) == l.is \in {"shebang", HASH, SLASH, BLOCK, PCT}

(* The first comment line of the header that names a licence.              *)
read_tag(text) ==
  LET named == {n \in DOMAIN text : n <= HEADER_LINES /\ comment(text[n]) /\ text[n].tag # NONE}
  IN  IF named = {} THEN NONE ELSE text[CHOOSE n \in named : \A m \in named : n <= m].tag

header_lines(lic, syn) == <<line(syn, NONE), line(syn, lic)>>
insert_at_top(text, lic, syn) == header_lines(lic, syn) \o text
insert(text, lic, syn) ==
  LET at == IF text # <<>> /\ text[1].is = "shebang" THEN 1 ELSE 0
      tail == SubSeq(text, at + 1, Len(text))
      gap == IF tail # <<>> /\ tail[1].is # "blank" THEN <<blank>> ELSE <<>>
  IN  SubSeq(text, 1, at) \o header_lines(lic, syn) \o gap \o tail

(* What git lists; without git, every file outside the build directories.  *)
SKIPPED == {".git", "__pycache__", ".venv", "ext", "tools", "gen", "genrvfi", "runs", "out",
            "_site", "node_modules"}
tracked(w) ==
  IF w.listed # {} THEN w.listed
  ELSE {p \in DOMAIN w.tree : Range(p.dirs) \cap SKIPPED = {} /\ p.parts[1] \notin SKIPPED}

(* A file that is not text, or that git lists and is gone, is left to the  *)
(* licence of its path.                                                    *)
spdx_main(w, apply) ==
  LET read == {p \in tracked(w) : classify(p) # NONE /\ p \in DOMAIN w.tree
                                  /\ w.tree[p].utf8}
      have(p) == read_tag(w.tree[p].lines)
      filled == {p \in read : apply /\ have(p) = NONE /\ p \notin DOMAIN THIRD_PARTY}
      missing == {p \in read : have(p) = NONE} \ filled
      wrong == {p \in read : have(p) \notin {NONE, classify(p)}}
  IN  [missing |-> missing, wrong |-> wrong, exit |-> IF missing \cup wrong = {} THEN 0 ELSE 1,
       world |-> [w EXCEPT !.tree = [p \in DOMAIN @ |->
          IF p \in filled
          THEN [@[p] EXCEPT !.lines = insert(@, classify(p), SYNTAX[strip_template(p)])]
          ELSE @[p]]]]

-----------------------------------------------------------------------------
(* After --apply the check finds what a person must decide and nothing     *)
(* else: a third party's file without its licence and a file that names    *)
(* another one.  A second --apply changes nothing, an interpreter line     *)
(* stays the first, no line is lost, and nobody else's licence is written  *)
(* over.                                                                   *)
TagsSettle(w) ==
  \A a \in {spdx_main(w, TRUE)} : \A then \in {spdx_main(a.world, FALSE)} :
  LET before(p) == w.tree[p].lines
      after(p) == a.world.tree[p].lines
  IN  /\ spdx_main(a.world, TRUE).world = a.world /\ then.missing = a.missing /\ then.wrong = spdx_main(w, FALSE).wrong
      /\ then.missing \subseteq DOMAIN THIRD_PARTY
      /\ \A p \in DOMAIN w.tree :
           /\ after(p) # before(p) =>
                /\ read_tag(before(p)) = NONE /\ p \notin DOMAIN THIRD_PARTY
                /\ read_tag(after(p)) = classify(p)
           /\ before(p) # <<>> =>
                /\ before(p)[1].is = "shebang" => after(p)[1] = before(p)[1]
                /\ \E n \in 0 .. Len(after(p)) :
                     SubSeq(after(p), n + 1, Len(after(p)))
                       = SubSeq(before(p), IF before(p)[1].is = "shebang" /\ n > 0 THEN 2 ELSE 1,
                                Len(before(p)))

-----------------------------------------------------------------------------
VERDICTS == {"PASS", "FAIL", "SKIP", "UNCHECKED"}
RUN_TREE == "hw/openlane/pilot_ihp/runs/signoff-6x2/final/def"
verdict(ok) == IF ok THEN "PASS" ELSE "FAIL"
has(c, key) == key \in DOMAIN c /\ c[key]

(* The registry: an entry starts a claim, every line with a colon sets a   *)
(* key of the last one.  Where PyYAML is installed it must agree to read   *)
(* the file.                                                               *)
load(registry) ==
  LET read(claims, l) ==
        LET cs == IF l.entry THEN Append(claims, <<>>) ELSE claims
        IN  IF l.is # "pair" \/ cs = <<>> THEN cs
            ELSE [cs EXCEPT ![Len(cs)] = (l.key :> l.value) @@ @]
      lines == SelectSeq(registry.lines, LAMBDA l : l.is \notin {"blank", "comment", "claims:"})
  IN  IF registry.pyyaml = "refuses" THEN [ok |-> FALSE]
      ELSE [ok |-> TRUE, claims |-> FoldLeft(read, <<>>, lines)]

(* Follow the path; where it breaks off, any key that ends it will do.     *)
dig(object, keys) ==
  LET step(a, part) ==
        IF a.over THEN a
        ELSE IF a.obj.leaf THEN [a EXCEPT !.over = TRUE, !.raised = TRUE]
        ELSE IF <<part>> \in DOMAIN a.obj.sub THEN [a EXCEPT !.obj = @.sub[<<part>>]]
        ELSE LET ending == {k \in DOMAIN a.obj.sub : IsSuffix(k, keys)}
             IN  IF ending = {} THEN [a EXCEPT !.over = TRUE, !.none = TRUE]
                 ELSE [a EXCEPT !.over = TRUE, !.obj = @.sub[CHOOSE k \in ending : TRUE]]
  IN  FoldLeft(step, [obj |-> object, over |-> FALSE, none |-> FALSE, raised |-> FALSE], keys)

(* A run's metrics.json and resolved.json have a record under docs.        *)
_recorded(w, file) == IF file \in DOMAIN w.record THEN w.record[file] ELSE "none"

same_number(w, got, value) ==
  IF {got, value} \subseteq DOMAIN w.number THEN w.number[got] = w.number[value] ELSE got = value

check_tsv(c, w) ==
  LET rows == w.tree[c.file].rows
      column == {k \in DOMAIN rows[1] : rows[1][k] = c.column}
      k == CHOOSE n \in column : \A m \in column : n <= m
  IN  IF c.file \notin DOMAIN w.tree \/ Len(rows) < 2 \/ column = {} THEN "FAIL"
      ELSE IF Len(Last(rows)) < 2 \/ Len(Last(rows)) < k THEN "raised"
      ELSE verdict(Last(rows)[k] = c.value)

empty_all(globs, w) == \A g \in DOMAIN globs : globs[g] \cap DOMAIN w.tree = {}
empty(globs, w) == \E g \in DOMAIN globs : globs[g] \cap DOMAIN w.tree = {}
check_grep(c, w) ==
  LET files == UNION {c.paths[g] : g \in DOMAIN c.paths} \cap DOMAIN w.tree
      hits == UNION {{<<f, n>> : n \in {k \in DOMAIN w.tree[f].lines :
                                          w.tree[f].lines[k] \cap c.pattern # {}}} : f \in files}
  IN  IF empty(c.paths, w) THEN IF has(c, "needs_run_tree") THEN "SKIP" ELSE "FAIL"
      ELSE verdict(Cardinality(hits) = w.number[c.value])

check_json(c, w) ==
  LET file == IF c.file \in DOMAIN w.tree THEN c.file ELSE _recorded(w, c.file)
  IN  IF file \notin DOMAIN w.tree THEN "SKIP"
      ELSE verdict(c.key \in DOMAIN w.tree[file].json /\ w.tree[file].json[c.key] = c.value)

check_run(c, w) ==
  LET out == w.run[c.cmd]
      dug == dig(out.json, c.json_path)
      got == IF "json_path" \in DOMAIN c THEN IF dug.obj.leaf THEN dug.obj.value ELSE "object"
             ELSE IF "regex" \in DOMAIN c THEN out.group ELSE out.text
      none == IF "json_path" \in DOMAIN c THEN dug.none ELSE got = "none"
  IN  IF has(c, "needs_run_tree") /\ RUN_TREE \notin DOMAIN w.tree THEN "SKIP"
      ELSE IF out.rc # 0 THEN "FAIL"
      ELSE IF "unchecked_when" \in DOMAIN c /\ out.text = c.unchecked_when THEN "UNCHECKED"
      ELSE IF "json_path" \in DOMAIN c /\ ~out.is_json THEN "FAIL"
      ELSE IF "json_path" \in DOMAIN c /\ dug.raised THEN "raised"
      ELSE IF none THEN "FAIL"
      ELSE verdict(same_number(w, got, c.value))

check(c, w) ==
  IF "check" \notin DOMAIN c THEN "FAIL"
  ELSE CASE c.check = "manual" -> IF {"artefact", "read"} \subseteq DOMAIN c THEN "UNCHECKED" ELSE "FAIL"
         [] c.check = "blob"   -> verdict(c.path \in DOMAIN w.tree
                                          /\ IsPrefix(c.hash, w.tree[c.path].hash))
         [] c.check = "file"   -> verdict(c.file \in DOMAIN w.tree
                                          /\ \E n \in DOMAIN w.tree[c.file].lines :
                                               c.contains \in w.tree[c.file].lines[n])
         [] c.check = "tsv"    -> check_tsv(c, w)
         [] c.check = "grep"   -> check_grep(c, w)
         [] c.check = "json"   -> check_json(c, w)
         [] c.check = "absent" -> verdict(c.glob \cap DOMAIN w.tree = {})
         [] c.check = "run"    -> check_run(c, w)
         [] OTHER -> "FAIL"

(* The claims in order, up to one whose check raises.                      *)
report(states) ==
  LET tally == [v \in VERDICTS |-> Cardinality({k \in DOMAIN states : states[k] = v})]
  IN  IF "raised" \in Range(states) THEN [exit |-> 1, summary |-> FALSE]
      ELSE [exit |-> IF tally["FAIL"] > 0 THEN 1 ELSE 0, summary |-> TRUE, tally |-> tally]
claims_main(registry, w) ==
  LET r == load(registry)
  IN  IF ~r.ok THEN [exit |-> 1, summary |-> FALSE]
      ELSE report([k \in DOMAIN r.claims |-> check(r.claims[k], w)])

-----------------------------------------------------------------------------
(* A claim that passes in a clone, where no build output is, passes where  *)
(* everything is, provided the records are true copies; it fails in no     *)
(* clone for want of build output alone if it says it needs a run tree, or *)
(* reads a run's file.  Only a claim that nothing matches passes for lack  *)
(* of evidence, and no glob reaches both a run tree and the checkout.      *)
Clone(w) == [w EXCEPT !.tree = Restrict(@, DOMAIN @ \ w.built)]
TrueCopies(w) ==
  \A f \in DOMAIN w.record :
    {f, w.record[f]} \subseteq DOMAIN w.tree => w.tree[f].json = w.tree[w.record[f]].json
ReadsRunTree(c) == has(c, "needs_run_tree") \/ c.check = "json"
CloneAgrees(c, w) ==
  \A here \in {check(c, w)}, clone \in {check(c, Clone(w))} :
  LET plain(g) == g \subseteq w.built \/ g \cap w.built = {}
  IN  (/\ TrueCopies(w) /\ c.check # "absent"
       /\ c.check = "grep" => \A g \in DOMAIN c.paths : plain(c.paths[g])) =>
        /\ clone = "PASS" => here = "PASS"
        /\ (clone = "FAIL" /\ ReadsRunTree(c)) => here = "FAIL"
        /\ clone = "SKIP" => ReadsRunTree(c)

(* The command says yes only when every claim of the registry has been     *)
(* read: none lost between two entries, none failing, all of them counted. *)
RegistryRead(registry, claims, w) ==
  \A m \in {claims_main(registry, w)} :
      m.exit = 0 => /\ load(registry).claims = claims
                    /\ m.tally["PASS"] + m.tally["SKIP"] + m.tally["UNCHECKED"] = Len(claims)
                    /\ \A k \in DOMAIN claims : check(claims[k], w) # "FAIL"
=============================================================================
