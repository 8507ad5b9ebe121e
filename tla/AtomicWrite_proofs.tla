-------------------------- MODULE AtomicWrite_proofs --------------------------
(***************************************************************************)
(* write_text_atomically implements the atomic file, for any texts.        *)
(***************************************************************************)
EXTENDS AtomicWrite, TLAPS

(* The rename is only ever reached with the whole text in the temporary file. *)
THEOREM WriterInvariant == Spec => []WriterInv
<1>1. Init => WriterInv
  BY DEF Init, WriterInv, TypeOK
<1>2. WriterInv /\ [Next]_vars => WriterInv'
  <2> SUFFICES ASSUME WriterInv, [Next]_vars PROVE WriterInv'
    OBVIOUS
  <2>1. ASSUME NEW new \in Contents, Begin(new) PROVE WriterInv'
    BY <2>1 DEF Begin, WriterInv, TypeOK
  <2>2. CASE Create
    BY <2>2 DEF Create, WriterInv, TypeOK
  <2>3. CASE WriteText
    BY <2>3 DEF WriteText, WriterInv, TypeOK
  <2>4. CASE Replace
    BY <2>4 DEF Replace, WriterInv, TypeOK
  <2>5. CASE CreateFails \/ WriteFails \/ ReplaceFails
    BY <2>5 DEF CreateFails, WriteFails, ReplaceFails, Raise, WriterInv, TypeOK
  <2>6. CASE Kill
    BY <2>6 DEF Kill, WriterInv, TypeOK
  <2>7. CASE UNCHANGED vars
    BY <2>7 DEF vars, WriterInv, TypeOK
  <2>8. QED
    BY <2>1, <2>2, <2>3, <2>4, <2>5, <2>6, <2>7 DEF Next
<1>3. QED
  BY <1>1, <1>2, PTL DEF Spec

(* A kill or an OSError at any step leaves the whole old text or the whole new
   one: creating and writing the temporary file stutter, the rename commits, and
   everything else aborts. *)
THEOREM WriteIsAtomic == Spec => ImplementsAtomicFile
<1>1. Init => Promise!Init
  BY DEF Init, Promise!Init
<1>2. WriterInv /\ [Next]_vars => [Promise!Next]_<<file, text, result>>
  <2> SUFFICES ASSUME WriterInv, [Next]_vars
               PROVE  Promise!Next \/ UNCHANGED <<file, text, result>>
    OBVIOUS
  <2>1. ASSUME NEW new \in Contents, Begin(new) PROVE Promise!Request(new)
    BY <2>1 DEF Begin, WriterInv, Promise!Request
  <2>2. CASE Create \/ WriteText
    BY <2>2 DEF Create, WriteText
  <2>3. CASE Replace
    BY <2>3 DEF Replace, WriterInv, Promise!Next, Promise!Commit
  <2>4. CASE CreateFails \/ WriteFails \/ ReplaceFails
    BY <2>4 DEF CreateFails, WriteFails, ReplaceFails, Raise, WriterInv,
       Promise!Next, Promise!Abort
  <2>5. CASE Kill
    BY <2>5 DEF Kill, WriterInv, Promise!Next, Promise!Abort
  <2>6. CASE UNCHANGED vars
    BY <2>6 DEF vars
  <2>7. QED
    BY <2>1, <2>2, <2>3, <2>4, <2>5, <2>6 DEF Next, Promise!Next
<1>3. QED
  BY <1>1, <1>2, WriterInvariant, PTL DEF Spec, ImplementsAtomicFile, Promise!Spec
=============================================================================
