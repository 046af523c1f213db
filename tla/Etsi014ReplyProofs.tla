------------------------- MODULE Etsi014ReplyProofs -------------------------
(***************************************************************************)
(* Proof that the QKD client yields a key for exactly the KME replies the  *)
(* spec accepts (AcceptsExactlySpec), for every bound on key sizes, text   *)
(* lengths and the number of keys in a reply.                              *)
(***************************************************************************)
EXTENDS Etsi014Reply, TLAPS

USE MaxKeyBytesAssumption, MaxTextLenAssumption, MaxKeysAssumption

\* The inductive invariant: the reply is one the KME can send, and once
\* the fetch ran its outcome is what fetch_key_internal computes of it.
IInv ==
    /\ reply \in Reply
    /\ outcome = "pending" \/ outcome = FetchKeyInternal(reply)

-----------------------------------------------------------------------------

\* The base64 length of a 32-octet key's own text is 60, not 32: the assert
\* of TryFrom<ResponseKey> never fires on a well-formed key.
LEMMA AssertPassesOnKey == EncodedLen(EncodedLen(KEY_LENGTH)) # KEY_LENGTH
BY DEF EncodedLen, KEY_LENGTH

\* A single key text converts to a key exactly when it is valid base64 of
\* KEY_LENGTH octets.
LEMMA KeyOkIffFull ==
    ASSUME NEW t \in KeyText
    PROVE  KeyFromResponse(t) = "ok" <=> t.valid /\ t.bytes = KEY_LENGTH
<1>1. ASSUME t.valid, t.bytes = KEY_LENGTH PROVE KeyFromResponse(t) = "ok"
  <2>1. TextLen(t) = EncodedLen(KEY_LENGTH)
    BY <1>1 DEF TextLen
  <2>2. EncodedLen(TextLen(t)) # KEY_LENGTH
    BY <2>1, AssertPassesOnKey
  <2>3. t.valid /\ ~(t.bytes > KEY_LENGTH)
    BY <1>1 DEF KEY_LENGTH
  <2> QED
    BY <1>1, <2>2, <2>3 DEF KeyFromResponse
<1>2. ASSUME KeyFromResponse(t) = "ok" PROVE t.valid /\ t.bytes = KEY_LENGTH
  BY <1>2 DEF KeyFromResponse
<1> QED
  BY <1>1, <1>2

\* fetch_key_internal returns a key for exactly the replies the spec
\* accepts.
LEMMA FetchOkIffSpec ==
    ASSUME NEW r \in Reply
    PROVE  FetchKeyInternal(r) = "ok" <=> SpecAccepts(r)
<1>1. CASE r.status # "success"
  BY <1>1 DEF FetchKeyInternal, SpecAccepts
<1>2. CASE r.status = "success"
  <2>1. PICK n \in 0 .. MaxKeys : r.keys \in [1 .. n -> KeyText]
    BY <1>2 DEF Reply
  <2>2. Len(r.keys) = n
    BY <2>1
  <2>3. CASE n = 1
    <3>1. r.keys[1] \in KeyText
      BY <2>1, <2>3
    <3> QED
      BY <1>2, <2>2, <2>3, <3>1, KeyOkIffFull
      DEF FetchKeyInternal, KeysFromResponse, SpecAccepts
  <2>4. CASE n # 1
    BY <1>2, <2>2, <2>4 DEF FetchKeyInternal, KeysFromResponse, SpecAccepts
  <2> QED
    BY <2>3, <2>4
<1> QED
  BY <1>1, <1>2

\* Init establishes the inductive invariant, and every step keeps it.
LEMMA InitIInv == Init => IInv
BY DEF Init, IInv

LEMMA NextIInv == IInv /\ [Next]_vars => IInv'
BY DEF IInv, Next, Fetch, vars

\* The QKD client yields a key for exactly the replies spec 3 accepts: one
\* key, valid base64 of KEY_LENGTH octets, in a successful exchange.  A
\* reply with no or several keys, a short or long key, or a failed exchange
\* never becomes a key, for every bound on the replies.
THEOREM AcceptsExactlySpecHolds == Spec => []AcceptsExactlySpec
<1>1. IInv => AcceptsExactlySpec
  BY FetchOkIffSpec DEF IInv, AcceptsExactlySpec
<1> QED
  BY <1>1, InitIInv, NextIInv, PTL DEF Spec

=============================================================================
