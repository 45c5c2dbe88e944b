--------------------------- MODULE YuvBuildProofs ---------------------------
(***************************************************************************)
(* Proofs about the libyuv build script for every set of files, every set *)
(* of function lists, every bound on faults and every fault option.       *)
(***************************************************************************)
EXTENDS YuvBuild, TLAPS

\* Type correctness of the build script's state under every fault: whatever
\* kills, failed git commands and edits of the list happen, each file holds
\* renamings of lines of some list, only files of the tree are truncated,
\* and the fault count stays within its bound.
THEOREM TypeCorrect == FaultSpec => []TypeOK
  <1> DEFINE AllFuncs == UNION {Funcs(L) : L \in Lists}
  <1> USE BuildAssumption
  <1>1. Init => TypeOK
    <2> SUFFICES ASSUME Init PROVE TypeOK
      OBVIOUS
    <2>1. applied \in [Files -> SUBSET AllFuncs]
      BY DEF Init
    <2>2. faults \in 0..MaxFaults
      BY DEF Init
    <2>. QED
      BY <2>1, <2>2 DEF Init, TypeOK, CloneRemains
  <1>2. TypeOK /\ [FaultNext]_vars => TypeOK'
    <2> SUFFICES ASSUME TypeOK, [FaultNext]_vars PROVE TypeOK'
      OBVIOUS
    <2>1. CASE Start \/ CloneOk \/ CheckoutOk \/ Scan \/ ScanPanic
      BY <2>1 DEF Start, CloneOk, CheckoutOk, Scan, ScanPanic, TypeOK, CloneRemains
    <2>2. CASE CloneFail \/ CloneFailInCheckout \/ CheckoutFail
      BY <2>2 DEF CloneFail, CloneFailInCheckout, CheckoutFail, TypeOK, CloneRemains
    \* A kill inside rename_symbols truncates files it had still to write.
    <2>3. CASE CrashInClone \/ CrashInRename \/ Crash
      BY <2>3 DEF CrashInClone, CrashInRename, Crash, Killed, TypeOK
    \* A file gains the renamings of the current list, a list of Lists.
    <2>4. ASSUME NEW f \in Files, RenameFile(f) PROVE TypeOK'
      <3>1. Funcs(list) \subseteq AllFuncs
        BY DEF TypeOK
      <3>2. applied[f] \cup Funcs(list) \in SUBSET AllFuncs
        BY <3>1 DEF TypeOK
      <3>. QED
        BY <2>4, <3>2 DEF RenameFile, TypeOK
    <2>5. CASE RenameDone \/ Compile \/ CompileFail \/ Bindgen \/ EditList
      BY <2>5 DEF RenameDone, Compile, CompileFail, Bindgen, EditList, TypeOK
    <2>6. CASE UNCHANGED vars
      BY <2>6 DEF vars, TypeOK
    <2>. QED
      BY <2>1, <2>2, <2>3, <2>4, <2>5, <2>6 DEF FaultNext, Next
  <1>. QED
    BY <1>1, <1>2, PTL DEF FaultSpec

=============================================================================
