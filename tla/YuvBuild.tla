------------------------------ MODULE YuvBuild ------------------------------
(***************************************************************************)
(* The build script src/yuv-sys/build.rs, run by cargo again and again on  *)
(* the same OUT_DIR.                                                       *)
(*                                                                         *)
(*  - clone_if_needed clones libyuv into OUT_DIR/libyuv and checks it out  *)
(*    unless that directory already exists, and returns whether it cloned. *)
(*  - main checks the tree, reads yuv_functions.txt and, only when this    *)
(*    run cloned, rewrites every header and source file in parallel        *)
(*    (rename_symbols) so that each listed function f becomes rs_f, or the *)
(*    second word of its line.                                             *)
(*  - cc compiles the sources; bindgen allowlists "rs_" ++ line for every  *)
(*    line of the list and binds the declarations of libyuv.h.             *)
(* OUT_DIR persists between runs; a run can be killed at any point, and a  *)
(* git command can fail, in which case run_git_cmd panics.  Editing the    *)
(* list reruns the script (cargo:rerun-if-changed=yuv_functions.txt).     *)
(*                                                                         *)
(* What a killed `git clone` leaves: nothing, when git's signal handler    *)
(* removes an interrupted fetch; the repository without a complete         *)
(* include/libyuv and source/ (killed early in the checkout, or by a      *)
(* signal git cannot catch); include/ complete and source/ partial (git    *)
(* writes the index in path order, include/ before source/, and keeps the  *)
(* work tree once the fetch is done); or the whole tree.  A kill inside    *)
(* rename_symbols can leave the files being written by fs::write          *)
(* truncated.                                                              *)
(*                                                                         *)
(* Data is abstracted to what the properties compare: a function name is a *)
(* string, a line of the list a record of its words and whether it carries *)
(* surrounding whitespace, a file a model value.                           *)
(***************************************************************************)
EXTENDS Naturals, Sequences, FiniteSets

CONSTANTS
    Headers,        \* files of include/libyuv
    Sources,        \* .cc files of source/
    Decl,           \* function name -> header declaring it
    Def,            \* function name -> source defining it
    Lists,          \* the contents yuv_functions.txt may have (sequences of lines)
    MaxFaults,      \* bound on crashes and git failures
    CloneMayFail,   \* `git clone` may fail (git removes what it created)
    CheckoutMayFail,\* `git checkout` may fail
    MayCrash        \* the build may be killed at any step

Files == Headers \cup Sources

\* A line of yuv_functions.txt: its whitespace-separated words, and whether
\* it has leading or trailing whitespace (a trailing blank, a tab).
Line(words, pad) == [words |-> words, pad |-> pad]

ASSUME BuildAssumption ==
    /\ Headers \cap Sources = {}
    /\ Lists # {}
    /\ \A L \in Lists : \A i \in 1..Len(L) : Len(L[i].words) <= 2
    /\ MaxFaults \in Nat
    /\ {CloneMayFail, CheckoutMayFail, MayCrash} \subseteq BOOLEAN

FNC_PREFIX == "rs_"

\* The text of a line as bindgen's loop uses it: untrimmed, words joined.
LineText(l) ==
    LET joined == IF Len(l.words) = 0 THEN ""
                  ELSE IF Len(l.words) = 1 THEN l.words[1]
                  ELSE l.words[1] \o " " \o l.words[2]
    IN  IF l.pad THEN joined \o " " ELSE joined

\* rename_symbols, per line: skip a blank line, else rename the first word
\* to the second word, or to FNC_PREFIX ++ first word.
Renames(l) == Len(l.words) > 0
Target(l) == IF Len(l.words) > 1 THEN l.words[2] ELSE FNC_PREFIX \o l.words[1]

\* The name bindgen allowlists for a line: format!("{}{}", FNC_PREFIX, fnc).
Allowlisted(l) == FNC_PREFIX \o LineText(l)

\* Lines of a list that name a function.
Funcs(L) == {L[i] : i \in {j \in 1..Len(L) : Renames(L[j])}}

VARIABLES
    dir,        \* OUT_DIR/libyuv on disk: one of CloneRemains
    applied,    \* file -> set of lines rename_symbols has applied to it
    list,       \* current contents of yuv_functions.txt
    bpc,        \* the running build's step, "idle" when none, "done" after success
    cloned,     \* clone_if_needed's result in the running build
    todo,       \* files rename_symbols has still to rewrite in this build
    torn,       \* files a killed fs::write left truncated
    faults      \* crashes and git failures so far

vars == <<dir, applied, list, bpc, cloned, todo, torn, faults>>

\* What a `git clone` killed at some point leaves in OUT_DIR/libyuv.
CloneRemains == {"absent", "repo", "mixed", "full"}

\* Trees that pass main's checks of libyuv_dir, include_dir, include/libyuv
\* and source_dir.
Checked == {"mixed", "full"}

\* The name under which a file's text has a listed function after renaming.
NameIn(f, l) ==
    LET done == {m \in applied[f] : m.words[1] = l.words[1]}
    IN  IF done = {} THEN l.words[1] ELSE Target(CHOOSE m \in done : TRUE)

\* What the header declares and what the library defines for a line.
DeclaredName(l) == NameIn(Decl[l.words[1]], l)
ExportedName(l) == NameIn(Def[l.words[1]], l)

-----------------------------------------------------------------------------
(* Mutants.                                                                *)

\* main skips rename_symbols even after a fresh clone (`if !cloned`).
ScanSkipRename ==
    /\ bpc = "scan"
    /\ dir \in Checked
    /\ bpc' = "compile"
    /\ todo' = {}
    /\ UNCHANGED <<dir, applied, list, cloned, faults, torn>>

-----------------------------------------------------------------------------
Init ==
    /\ dir = "absent"
    /\ applied = [f \in Files |-> {}]
    /\ list \in Lists
    /\ bpc = "idle"
    /\ cloned = FALSE
    /\ todo = {}
    /\ torn = {}
    /\ faults = 0

\* cargo runs the build script: clone_if_needed returns false at once when
\* OUT_DIR/libyuv exists, else it runs `git clone`.
Start ==
    /\ bpc \in {"idle", "done"}
    /\ bpc' = IF dir = "absent" THEN "clone" ELSE "scan"
    /\ cloned' = FALSE
    /\ UNCHANGED <<dir, applied, list, todo, faults, torn>>

\* `git clone` succeeds and creates the tree.
CloneOk ==
    /\ bpc = "clone"
    /\ dir' = "full"
    /\ bpc' = "checkout"
    /\ UNCHANGED <<applied, list, cloned, todo, faults, torn>>

\* `git clone` fails in its fetch: git removes the directory it created and
\* run_git_cmd panics.
CloneFail ==
    /\ CloneMayFail
    /\ bpc = "clone"
    /\ faults < MaxFaults
    /\ bpc' = "idle"
    /\ faults' = faults + 1
    /\ UNCHANGED <<dir, applied, list, cloned, todo, torn>>

\* `git clone` fails in its checkout (disk full, a path it cannot write):
\* git keeps the repository and what it checked out, and run_git_cmd panics
\* before clone_if_needed's remove_dir_all can run.
CloneFailInCheckout ==
    /\ CloneMayFail
    /\ bpc = "clone"
    /\ faults < MaxFaults
    /\ dir' \in {"repo", "mixed"}
    /\ bpc' = "idle"
    /\ faults' = faults + 1
    /\ UNCHANGED <<applied, list, cloned, todo, torn>>

\* `git checkout main` succeeds and include/ and source/ are there:
\* clone_if_needed returns true.
CheckoutOk ==
    /\ bpc = "checkout"
    /\ bpc' = "scan"
    /\ cloned' = TRUE
    /\ UNCHANGED <<dir, applied, list, todo, faults, torn>>

\* `git checkout` fails: run_git_cmd panics before clone_if_needed can remove
\* the fresh clone, which stays in OUT_DIR unrenamed.
CheckoutFail ==
    /\ CheckoutMayFail
    /\ bpc = "checkout"
    /\ faults < MaxFaults
    /\ bpc' = "idle"
    /\ faults' = faults + 1
    /\ UNCHANGED <<dir, applied, list, cloned, todo, torn>>

\* main's checks, the listing of include/libyuv and source/, and the reading
\* of yuv_functions.txt; then rename_symbols only `if cloned`.
Scan ==
    /\ bpc = "scan"
    /\ dir \in Checked
    /\ bpc' = IF cloned THEN "rename" ELSE "compile"
    /\ todo' = IF cloned THEN Files ELSE {}
    /\ UNCHANGED <<dir, applied, list, cloned, faults, torn>>

\* A tree that fails one of main's checks panics: libyuv_dir, include_dir,
\* the read_dir of include/libyuv or source_dir (a repository whose checkout
\* stopped before source/).
ScanPanic ==
    /\ bpc = "scan"
    /\ dir \notin Checked
    /\ bpc' = "idle"
    /\ UNCHANGED <<dir, applied, list, cloned, todo, faults, torn>>

\* One rayon task of rename_symbols: read the file, apply every line, write it.
RenameFile(f) ==
    /\ bpc = "rename"
    /\ f \in todo
    /\ applied' = [applied EXCEPT ![f] = @ \cup Funcs(list)]
    /\ todo' = todo \ {f}
    /\ UNCHANGED <<dir, list, bpc, cloned, faults, torn>>

\* par_iter().for_each returns when every file is written.
RenameDone ==
    /\ bpc = "rename"
    /\ todo = {}
    /\ bpc' = "compile"
    /\ UNCHANGED <<dir, applied, list, cloned, todo, faults, torn>>

\* cc::Build::compile builds the .cc files main listed; a file truncated to
\* a whole declaration (or to nothing) still compiles.
Compile ==
    /\ bpc = "compile"
    /\ bpc' = "bindgen"
    /\ UNCHANGED <<dir, applied, list, cloned, todo, faults, torn>>

\* A file truncated inside a declaration: cc's compile panics.
CompileFail ==
    /\ bpc = "compile"
    /\ torn # {}
    /\ bpc' = "idle"
    /\ UNCHANGED <<dir, applied, list, cloned, todo, faults, torn>>

\* bindgen generates the bindings of libyuv.h and writes yuv.rs.
Bindgen ==
    /\ bpc = "bindgen"
    /\ bpc' = "done"
    /\ UNCHANGED <<dir, applied, list, cloned, todo, faults, torn>>

\* The build is killed: counted against MaxFaults, the build script's
\* process and its git child end where they are.
Killed ==
    /\ MayCrash
    /\ faults < MaxFaults
    /\ bpc' = "idle"
    /\ todo' = {}
    /\ faults' = faults + 1

\* Killed inside `git clone`: see CloneRemains.
CrashInClone ==
    /\ bpc = "clone"
    /\ Killed
    /\ dir' \in CloneRemains
    /\ UNCHANGED <<applied, list, cloned, torn>>

\* Killed inside rename_symbols: the files whose fs::write was under way
\* are left truncated; those already written stay rewritten.
CrashInRename ==
    /\ bpc = "rename"
    /\ Killed
    /\ \E T \in SUBSET todo : torn' = torn \cup T
    /\ UNCHANGED <<dir, applied, list, cloned>>

\* Killed in any other step: nothing on disk changes.
Crash ==
    /\ bpc \in {"checkout", "scan", "compile", "bindgen"}
    /\ Killed
    /\ UNCHANGED <<dir, applied, list, cloned, torn>>

\* The developer edits yuv_functions.txt between builds.
EditList ==
    /\ bpc \in {"idle", "done"}
    /\ \E L \in Lists \ {list} : list' = L
    /\ bpc' = "idle"
    /\ UNCHANGED <<dir, applied, cloned, todo, faults, torn>>

\* The build script on a network whose fetch may fail: what it does when
\* nothing is left behind on disk.
Next ==
    \/ Start \/ CloneOk \/ CloneFail \/ CheckoutOk
    \/ Scan \/ \E f \in Files : RenameFile(f) \/ RenameDone
    \/ Compile \/ Bindgen

Spec == Init /\ [][Next]_vars

\* With the faults that leave something on disk (a clone failing in its
\* checkout, a failing `git checkout`, a kill at any step), the edits of the
\* list between builds, and main's panics, which only the trees those faults
\* leave can reach.
FaultNext ==
    \/ Next
    \/ CloneFailInCheckout \/ CheckoutFail \/ ScanPanic \/ CompileFail
    \/ CrashInClone \/ CrashInRename \/ Crash \/ EditList

FaultSpec == Init /\ [][FaultNext]_vars

-----------------------------------------------------------------------------
(* Properties.                                                             *)

\* Type invariant.
TypeOK ==
    /\ dir \in CloneRemains
    /\ applied \in [Files -> SUBSET UNION {Funcs(L) : L \in Lists}]
    /\ list \in Lists
    /\ bpc \in {"idle", "clone", "checkout", "scan", "rename", "compile",
                "bindgen", "done"}
    /\ cloned \in BOOLEAN
    /\ todo \subseteq Files
    /\ torn \subseteq Files
    /\ faults \in 0..MaxFaults

\* After a successful build, every function of yuv_functions.txt has a
\* binding that resolves: bindgen's allowlisted "rs_" ++ line is the name
\* libyuv.h declares and the name the compiled library defines.  It needs
\* rename_symbols to have rewritten every file with the current list, in a
\* run that may be several runs before the one that compiles.
BindingsResolve ==
    bpc = "done" =>
        \A l \in Funcs(list) :
            /\ Allowlisted(l) = DeclaredName(l)
            /\ Allowlisted(l) = ExportedName(l)

\* A build that succeeds compiled and bound the whole libyuv tree, every file
\* as git wrote it or rename_symbols rewrote it: main's checks
\* (libyuv_dir, include_dir, source_dir exist) are meant to stop a build
\* on what a killed clone or a killed rename leaves behind.
CompiledTreeComplete ==
    bpc = "done" => dir = "full" /\ torn = {}

=============================================================================
