--------------------------- MODULE Etsi014Reply ---------------------------
(***************************************************************************)
(* How the QKD client of etsi014.rs turns a KME reply into a key:          *)
(* fetch_key_internal, then TryFrom<ResponseKeys> and TryFrom<ResponseKey> *)
(* for Etsi014Key.  The outcome is a key ("ok"), an Err returned to the    *)
(* rekey protocol ("error"), or a panic of the calling task ("panic").     *)
(*                                                                         *)
(* A key text is abstracted to what the conversion tells apart: valid      *)
(* padded base64 of `bytes` octets (its length is then the encoded length  *)
(* of `bytes`), or malformed text of `len` characters.  The UUID, the JSON *)
(* layout and the HTTP exchange are abstracted to their success or error.  *)
(***************************************************************************)
EXTENDS Naturals, Sequences

CONSTANTS
    MaxKeyBytes,    \* largest decoded key the KME may send, in octets
    MaxTextLen,     \* longest malformed key text, in characters
    MaxKeys         \* longest "keys" array of a reply

ASSUME MaxKeyBytesAssumption == MaxKeyBytes \in Nat
ASSUME MaxTextLenAssumption == MaxTextLen \in Nat
ASSUME MaxKeysAssumption == MaxKeys \in Nat

\* KEY_LENGTH of crypto/basics.rs.
KEY_LENGTH == 32

\* base64ct's encoded_len for padded Base64: four characters per started
\* group of three octets.
EncodedLen(n) == 4 * ((n + 2) \div 3)

KeyText ==
    [valid: {TRUE}, bytes: 0 .. MaxKeyBytes, len: {0}]
        \cup [valid: {FALSE}, bytes: {0}, len: 1 .. MaxTextLen]

\* The length of the key string as received.
TextLen(t) == IF t.valid THEN EncodedLen(t.bytes) ELSE t.len

\* The HTTP outcome: send() failed, a non-success status, a body that is not
\* a ResponseKeys object, or a parsed body with its keys.
Status == {"unreachable", "error_status", "bad_json", "success"}

Reply ==
    {[status |-> s, keys |-> <<>>] : s \in Status \ {"success"}}
        \cup {[status |-> "success", keys |-> ks] :
                ks \in UNION {[1 .. n -> KeyText] : n \in 0 .. MaxKeys}}

VARIABLES
    reply,      \* what the KME answers
    outcome     \* what the fetch returns: "pending" until it has run

vars == <<reply, outcome>>

-----------------------------------------------------------------------------

\* TryFrom<ResponseKey>: the assert compares the base64 length of the key
\* string itself with KEY_LENGTH; decode into a KEY_LENGTH buffer is
\* unwrapped (malformed text, or more octets than the buffer); the slice's
\* try_into a Key fails with an error unless it has KEY_LENGTH octets.
KeyFromResponse(t) ==
    LET assertFails == EncodedLen(TextLen(t)) = KEY_LENGTH
        decodeFails == ~t.valid \/ t.bytes > KEY_LENGTH
    IN  IF assertFails \/ decodeFails THEN "panic"
        ELSE IF t.bytes = KEY_LENGTH THEN "ok" ELSE "error"

\* Seeded fault: the conversion takes the first key without checking that
\* there is exactly one.
KeysFromResponseFirst(ks) ==
    IF ks = <<>> THEN "error" ELSE KeyFromResponse(ks[1])

\* TryFrom<ResponseKeys>: ensure! exactly one key, then convert it.
KeysFromResponse(ks) ==
    IF Len(ks) # 1 THEN "error" ELSE KeyFromResponse(ks[1])

\* fetch_key_internal: every failure before the conversion is an Err.
FetchKeyInternal(r) ==
    IF r.status = "success" THEN KeysFromResponse(r.keys) ELSE "error"

Init ==
    /\ reply \in Reply
    /\ outcome = "pending"

\* fetch_any_key / fetch_specific_key: build the URI and fetch.
Fetch ==
    /\ outcome = "pending"
    /\ outcome' = FetchKeyInternal(reply)
    /\ UNCHANGED reply

Next == Fetch

Spec == Init /\ [][Next]_vars

-----------------------------------------------------------------------------
(* Properties *)

\* What spec 3 (fetch_any_key, fetch_specific_key) asks of a reply: exactly
\* one entry whose key base64-decodes to a 32-byte key.
SpecAccepts(r) ==
    /\ r.status = "success"
    /\ Len(r.keys) = 1
    /\ r.keys[1].valid
    /\ r.keys[1].bytes = KEY_LENGTH

\* The QKD client yields a key for exactly the replies the spec accepts:
\* a reply with several keys, a short or long key, or a failed exchange
\* never becomes a key, and a well-formed reply always does.
AcceptsExactlySpec == outcome # "pending" => (outcome = "ok" <=> SpecAccepts(reply))

\* Spec 5: the QKD client returns errors that abort the current connection,
\* and the conversion has an error path (try_into) for a decoded key of the
\* wrong length: a reply with one well-formed key shorter than KEY_LENGTH
\* is an error, never a panic of the task that fetched it.
ShortKeyIsError ==
    /\ outcome # "pending"
    /\ reply.status = "success"
    /\ Len(reply.keys) = 1
    /\ reply.keys[1].valid
    /\ reply.keys[1].bytes < KEY_LENGTH
    => outcome = "error"

=============================================================================
