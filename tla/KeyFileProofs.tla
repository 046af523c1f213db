--------------------------- MODULE KeyFileProofs ---------------------------
(***************************************************************************)
(* Proof that load_base64_key_file only loads a key from the whole key     *)
(* text (WholeTextLoaded), for every bound on key sizes, text lengths and  *)
(* trailing whitespace, however the file's reads are split.                *)
(***************************************************************************)
EXTENDS KeyFile, TLAPS

USE MaxKeyBytesAssumption, MaxTextLenAssumption, MaxTailAssumption

\* The inductive invariant: the buffer never holds more than the file; a
\* key was decoded from the buffer when it was full or held the whole file.
IInv ==
    /\ file \in File
    /\ red \in 0 .. FileLen(file)
    /\ outcome.status = "key" =>
          /\ outcome = Base64ToKey(DecodedOctets(file, red))
          /\ red = KEY_LENGTH_B64 \/ red = FileLen(file)
    /\ pc = "done" \/ outcome.status = "pending"

-----------------------------------------------------------------------------

\* The octets and the characters of a key text are numbers.
LEMMA KeyTextType ==
    ASSUME NEW t \in KeyText
    PROVE  t.bytes \in Nat /\ t.len \in Nat
<1>1. CASE t \in [valid: {TRUE}, bytes: 0 .. MaxKeyBytes, len: {0}]
  <2>1. t.bytes \in 0 .. MaxKeyBytes /\ t.len = 0 /\ t.valid = TRUE
    BY <1>1, Zenon
  <2> QED
    BY <2>1
<1>2. CASE t \in [valid: {FALSE}, bytes: {0}, len: 1 .. MaxTextLen]
  <2>1. t.bytes = 0 /\ t.len \in 1 .. MaxTextLen /\ t.valid = FALSE
    BY <1>2, Zenon
  <2> QED
    BY <2>1
<1> QED
  BY <1>1, <1>2 DEF KeyText

\* A key text has a length, and the file holds at least the key text.
LEMMA FileLenType ==
    ASSUME NEW f \in File
    PROVE  /\ TextLen(f.text) \in Nat
           /\ FileLen(f) \in Nat
           /\ TextLen(f.text) <= FileLen(f)
<1>1. TextLen(f.text) \in Nat
  <2>1. f.text.bytes \in Nat /\ f.text.len \in Nat
    BY KeyTextType DEF File
  <2> QED
    BY <2>1 DEF TextLen, EncodedLen
<1>2. PICK m \in 0 .. MaxTail : f.tail \in [1 .. m -> Whitespace]
  BY DEF File
<1>3. Len(f.tail) = m
  BY <1>2
<1> QED
  BY <1>1, <1>3 DEF FileLen

\* The buffer is KEY_LENGTH_B64 = 46 bytes, not a whole number of base64
\* groups.
LEMMA BufferNotGroupAligned == KEY_LENGTH_B64 % 4 # 0
BY DEF KEY_LENGTH_B64, KEY_LENGTH

\* A cut inside the key text that is not at a group boundary does not
\* decode.
LEMMA CutInsideTextFails ==
    ASSUME NEW f \in File, NEW n \in Nat, n < TextLen(f.text), n % 4 # 0
    PROVE  DecodedOctets(f, n) < 0
<1>1. TextLen(f.text) \in Nat
  BY FileLenType
<1>2. ~(n - TextLen(f.text) > 0) /\ n # TextLen(f.text)
  BY <1>1
<1> QED
  BY <1>2 DEF DecodedOctets

\* Init establishes the inductive invariant.
LEMMA InitIInv == Init => IInv
<1> SUFFICES ASSUME Init PROVE IInv
  OBVIOUS
<1>1. 0 \in 0 .. FileLen(file)
  BY FileLenType DEF Init
<1> QED
  BY <1>1 DEF Init, IInv

\* Every step keeps the inductive invariant.
LEMMA NextIInv == IInv /\ [Next]_vars => IInv'
<1> SUFFICES ASSUME IInv, [Next]_vars PROVE IInv'
  OBVIOUS
<1>1. FileLen(file) \in Nat
  BY FileLenType DEF IInv
<1>2. CASE Open
  BY <1>2 DEF Open, Failed, IInv
<1>3. CASE Read
  <2>1. pc = "reading" /\ outcome.status = "pending"
    BY <1>3 DEF Read, IInv
  <2>2. CASE /\ red < KEY_LENGTH_B64 /\ red < FileLen(file)
             /\ \E cnt \in 1 .. FileLen(file) - red :
                   cnt <= KEY_LENGTH_B64 - red /\ red' = red + cnt
             /\ UNCHANGED <<pc, outcome>>
    BY <1>1, <1>3, <2>1, <2>2 DEF Read, IInv
  <2>3. CASE /\ red = KEY_LENGTH_B64 \/ red = FileLen(file)
             /\ pc' = "done"
             /\ outcome' = Base64ToKey(DecodedOctets(file, red))
             /\ UNCHANGED red
    BY <1>3, <2>3 DEF Read, IInv
  <2>4. CASE pc' = "done" /\ outcome' = Failed /\ UNCHANGED red
    BY <1>3, <2>4 DEF Read, Failed, IInv
  <2> QED
    BY <1>3, <2>2, <2>3, <2>4 DEF Read
<1>4. CASE UNCHANGED vars
  BY <1>4 DEF vars, IInv
<1> QED
  BY <1>2, <1>3, <1>4 DEF Next

\* However the reads of read_to_end_up_to are split, a key is only loaded
\* from the whole key text: a read can stop inside the text only when the
\* buffer is full, and KEY_LENGTH_B64 bytes are not whole base64 groups, so
\* that prefix never decodes and base64_to_key never pads it with zeros.
\* For every bound on keys, texts and trailing whitespace.
THEOREM WholeTextLoadedHolds == Spec => []WholeTextLoaded
<1>1. IInv => WholeTextLoaded
  <2> SUFFICES ASSUME IInv, outcome.status = "key"
               PROVE  red >= TextLen(file.text)
    BY DEF WholeTextLoaded
  <2>1. TextLen(file.text) \in Nat /\ TextLen(file.text) <= FileLen(file)
        /\ red \in Nat
    BY FileLenType DEF IInv
  <2>2. SUFFICES ASSUME red < TextLen(file.text) PROVE FALSE
    BY <2>1
  <2>3. red = KEY_LENGTH_B64
    BY <2>1, <2>2 DEF IInv
  <2>4. DecodedOctets(file, red) < 0
    BY <2>1, <2>2, <2>3, BufferNotGroupAligned, CutInsideTextFails DEF IInv
  <2> QED
    BY <2>4 DEF IInv, Base64ToKey
<1> QED
  BY <1>1, InitIInv, NextIInv, PTL DEF Spec

=============================================================================
