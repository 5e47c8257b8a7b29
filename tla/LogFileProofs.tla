---------------------------- MODULE LogFileProofs ----------------------------
(***************************************************************************)
(* LogFile for every number of inodes, every cap and every size.           *)
(***************************************************************************)
EXTENDS LogFile, TLAPS

\* The daemon prints into the log, or into .log.old while there is no log: a
\* second rotation, which would take .log.old from it, finds nothing to rename.
PrintsInv ==
  out # NoFile => out = log \/ (out = old /\ log = NoFile)

\* What the running daemon prints ends up in the log or in its .old, however
\* rotations, stops and starts follow each other.
THEOREM OutputStaysFindable == Spec => []OutputFindable
<1>1. Init => PrintsInv
  BY DEF Init, PrintsInv
<1>2. PrintsInv /\ [Next]_vars => PrintsInv'
  <2> SUFFICES ASSUME PrintsInv, [Next]_vars PROVE PrintsInv'
    OBVIOUS
  <2>1. CASE Start
    BY <2>1 DEF Start, PrintsInv
  <2>2. CASE Write
    BY <2>2 DEF Write, PrintsInv
  <2>3. CASE Rotate
    <3>1. CASE Full
      BY <2>3, <3>1 DEF Rotate, RotateTo, Renamed, Full, PrintsInv
    <3>2. CASE ~Full
      BY <2>3, <3>2 DEF Rotate, RotateTo, Renamed, PrintsInv
    <3> QED
      BY <3>1, <3>2
  <2>4. CASE Stop
    BY <2>4 DEF Stop, PrintsInv
  <2>5. CASE UNCHANGED vars
    BY <2>5 DEF vars, PrintsInv
  <2> QED
    BY <2>1, <2>2, <2>3, <2>4, <2>5 DEF Next
<1>3. PrintsInv => OutputFindable
  BY DEF PrintsInv, OutputFindable
<1> QED
  BY <1>1, <1>2, <1>3, PTL DEF Spec
=============================================================================
