------------------------------ MODULE KeyFile ------------------------------
(***************************************************************************)
(* load_base64_key_file and base64_to_key of util.rs, which setup.rs uses  *)
(* for the PSK file (and base64_to_key alone for the peer ids).            *)
(*                                                                         *)
(* The file is read into a KEY_LENGTH_B64 buffer by read_to_end_up_to, a   *)
(* loop of read calls that may each return any number of bytes, be        *)
(* interrupted or fail; one trailing '\n' is trimmed and the rest is       *)
(* base64-decoded into a zeroed Key.                                       *)
(*                                                                         *)
(* The file is abstracted to a key text followed by a short tail of        *)
(* whitespace bytes.  A key text is valid padded base64 of `bytes` octets  *)
(* or malformed text of `len` characters (not ending in a newline).        *)
(***************************************************************************)
EXTENDS Naturals, Sequences

CONSTANTS
    MaxKeyBytes,    \* largest key a valid text encodes, in octets
    MaxTextLen,     \* longest malformed text, in characters
    MaxTail         \* longest run of whitespace after the text

ASSUME MaxKeyBytesAssumption == MaxKeyBytes \in Nat
ASSUME MaxTextLenAssumption == MaxTextLen \in Nat
ASSUME MaxTailAssumption == MaxTail \in Nat

\* KEY_LENGTH and KEY_LENGTH_B64 of crypto/basics.rs.
KEY_LENGTH == 32
KEY_LENGTH_B64 == (KEY_LENGTH * 4) \div 3 + 4

\* base64ct's padded encoded length of n octets.
EncodedLen(n) == 4 * ((n + 2) \div 3)

KeyText ==
    [valid: {TRUE}, bytes: 0 .. MaxKeyBytes, len: {0}]
        \cup [valid: {FALSE}, bytes: {0}, len: 1 .. MaxTextLen]

TextLen(t) == IF t.valid THEN EncodedLen(t.bytes) ELSE t.len

Whitespace == {"LF", "CR", "SP"}

File ==
    [text: KeyText,
     tail: UNION {[1 .. n -> Whitespace] : n \in 0 .. MaxTail}]

FileLen(f) == TextLen(f.text) + Len(f.tail)

VARIABLES
    file,       \* the PSK file's contents
    red,        \* bytes read into the buffer so far
    pc,         \* "open", "reading" or "done"
    outcome     \* status "pending", "error" or "key" (with the octets decoded)

vars == <<file, red, pc, outcome>>

-----------------------------------------------------------------------------

\* Base64::decode of the first n bytes of the file after the trim: the
\* number of octets it yields, or -1 when the bytes are not valid base64
\* (a whitespace byte, malformed text, or a cut inside a group).  A cut at
\* a group boundary short of the end is valid and has no padding.
DecodedOctets(f, n) ==
    LET kept == n - TextLen(f.text)
        tail == SubSeq(f.tail, 1, kept)
        trimmed == IF kept > 0 /\ tail[kept] = "LF" THEN kept - 1 ELSE kept
    IN  CASE kept > 0 /\ trimmed > 0         -> 0 - 1
          [] kept > 0 /\ ~f.text.valid       -> 0 - 1
          [] kept > 0                        -> f.text.bytes
          [] ~f.text.valid                   -> 0 - 1
          [] n = TextLen(f.text)             -> f.text.bytes
          [] n % 4 = 0                       -> (n \div 4) * 3
          [] OTHER                           -> 0 - 1

\* base64_to_key: decode into a zeroed Key; an error when the text is not
\* base64 or encodes more octets than a Key holds.  The number of octets
\* decoded is not checked: the rest of the Key stays zero.
Base64ToKey(octets) ==
    IF octets < 0 \/ octets > KEY_LENGTH
    THEN [status |-> "error", octets |-> 0]
    ELSE [status |-> "key", octets |-> octets]

Failed == [status |-> "error", octets |-> 0]

Init ==
    /\ file \in File
    /\ red = 0
    /\ pc = "open"
    /\ outcome = [status |-> "pending", octets |-> 0]

\* File::open(file)?: the open fails, or reading starts.
Open ==
    /\ pc = "open"
    /\ \/ pc' = "reading" /\ UNCHANGED outcome
       \/ pc' = "done" /\ outcome' = Failed
    /\ UNCHANGED <<file, red>>

\* Seeded fault: a single read call instead of the loop.
ReadOnce ==
    /\ pc = "reading"
    /\ \E cnt \in 0 .. FileLen(file) - red :
         /\ cnt <= KEY_LENGTH_B64 - red
         /\ red' = red + cnt
    /\ pc' = "done"
    /\ outcome' = Base64ToKey(DecodedOctets(file, red'))
    /\ UNCHANGED file

\* read_to_end_up_to: one read fills part of what is left of the buffer
\* (an Interrupted read is retried and changes nothing); once the buffer
\* is full or read returns 0 at the end of the file, load_base64_key_file
\* trims one trailing newline and decodes.  Any other read error is
\* returned.
Read ==
    /\ pc = "reading"
    /\ \/ /\ red < KEY_LENGTH_B64
          /\ red < FileLen(file)
          /\ \E cnt \in 1 .. FileLen(file) - red :
               /\ cnt <= KEY_LENGTH_B64 - red
               /\ red' = red + cnt
          /\ UNCHANGED <<pc, outcome>>
       \/ /\ red = KEY_LENGTH_B64 \/ red = FileLen(file)
          /\ pc' = "done"
          /\ outcome' = Base64ToKey(DecodedOctets(file, red))
          /\ UNCHANGED red
       \/ /\ pc' = "done"
          /\ outcome' = Failed
          /\ UNCHANGED red
    /\ UNCHANGED file

Next == Open \/ Read

Spec == Init /\ [][Next]_vars

-----------------------------------------------------------------------------
(* Properties *)

\* However the reads are split, a key is only ever loaded from the whole
\* key text: a read that stops inside the text never yields a key, though a
\* prefix cut at a group boundary would decode and base64_to_key would pad
\* it with zeros.
WholeTextLoaded ==
    outcome.status = "key" => red >= TextLen(file.text)

=============================================================================
