-------------------------------- MODULE Aead --------------------------------
(***************************************************************************)
(* The calls of the runtime's cipher, ime_aead_enc/dec and                 *)
(* ime_chacha_enc/dec in ime-rt/aead.c: which IV a call takes, the order   *)
(* of its passes over a buffer that may be its own output, what the tag    *)
(* authenticates, and what a failed verification leaves.  A pass is one    *)
(* step; ChachaCrypt takes ime_chacha_crypt() apart, Counter the IVs.      *)
(*                                                                         *)
(* A unit is 16 bytes, four of them a block of key stream.  The content of *)
(* a unit is the set of what has been exclusive-ored to the data: streams, *)
(* which are an IV and a block number, and a change on the way.            *)
(***************************************************************************)
EXTENDS Integers, FiniteSetsExt

CONSTANTS
  Calls,  \* how many messages are sealed, one after another
  Sizes   \* their lengths in units: at most 4, or multiples of 4 (see StaysInside)

\* What the proofs ask: there is data, and a longest message.
Sized ==
  /\ Calls \in Nat
  /\ Sizes # {} /\ Sizes \subseteq Nat \ {0} /\ \E l \in Sizes : \A k \in Sizes : k <= l

Places == {"buf", "out"}
Units == 0 .. Max(Sizes) - 1
Ways == {"none", "data", "tag", "iv", "length"}
NoTag == [iv |-> 0, fed |-> <<>>, len |-> 0, forged |-> FALSE]

VARIABLES
  pc,       \* where the caller is in a call, or between two
  call,     \* the number of the message
  counter,  \* values taken from the loader's counter
  kind,     \* "aead" or "chacha"
  place,    \* the output buffer: "buf" if it is the input
  len,      \* the length given to the call
  iv,       \* the IV of the call, returned in out_iv
  mem,      \* mem[p][u]: the content of unit u of buffer p
  tag,      \* the tag that goes with the message
  way,      \* history: what was changed on the way
  before,   \* history: mem before the message is opened
  used      \* history: the streams that messages were sealed with, and for what

vars == <<pc, call, counter, kind, place, len, iv, mem, tag, way, before, used>>
message == <<kind, place, len>>

Plain == [u \in Units |-> {}]
Changed == {<<0, 0>>}
Garbage == [u \in Units |-> Changed]

Init ==
  /\ pc = "app" /\ call = 0 /\ counter = 0
  /\ kind = "aead" /\ place = "buf" /\ len = 0 /\ iv = 0
  /\ mem = [p \in Places |-> Garbage]
  /\ tag = NoTag
  /\ way = "none" /\ before = mem /\ used = {}

-----------------------------------------------------------------------------
Xor(x, y) == (x \ y) \cup (y \ x)

\* Slip: the data begins with block 0, the one that keys the tag.
BlockFromZero(u) == u \div 4

\* The number of the block of key stream for a unit.
Block(u) == u \div 4 + 1

\* ime_chacha_crypt() with stride 1, from one buffer to another or in place.
Crypted(v, from, to) ==
  [mem EXCEPT ![to] = [u \in Units |->
     IF u < len THEN Xor(mem[from][u], {<<v, Block(u)>>}) ELSE @[u]]]

\* ime_poly_simple(): keyed by block 0 of the IV's stream, the units, the length.
Tag(v, from) ==
  [iv |-> v, fed |-> [u \in 0 .. len - 1 |-> mem[from][u]], len |-> len, forged |-> FALSE]

\* An odd value of the counter, or an even one of the caller's that is new.
FromCounter == 2 * counter + 1
OfCaller == 2 * (call + 1)

\* ime_aead_enc() or ime_chacha_enc() with a new message.
SealCall ==
  /\ pc = "app" /\ call < Calls
  /\ kind' \in {"aead", "chacha"} /\ place' \in Places /\ len' \in Sizes
  /\ \/ iv' = FromCounter /\ counter' = counter + 1
     \/ iv' = OfCaller /\ UNCHANGED counter
  /\ call' = call + 1
  /\ mem' = [p \in Places |-> IF p = "buf" THEN Plain ELSE Garbage]
  /\ tag' = NoTag
  /\ pc' = "crypt"
  /\ UNCHANGED <<way, before, used>>

Encrypt ==
  /\ pc = "crypt"
  /\ mem' = Crypted(iv, "buf", place)
  /\ used' = used \cup {<<iv, Block(u), "data", call>> : u \in 0 .. len - 1}
  /\ pc' = IF kind = "aead" THEN "auth" ELSE "sealed"
  /\ UNCHANGED <<call, counter, message, iv, tag, way, before>>

\* Slip: the tag is that of the input.
AuthenticatedInput == "buf"

\* The buffer of which ime_aead_enc_gen() computes the tag.
Authenticated == place

Authenticate ==
  /\ pc = "auth"
  /\ tag' = Tag(iv, Authenticated)
  /\ used' = used \cup {<<iv, 0, "tag", call>>}
  /\ pc' = "sealed"
  /\ UNCHANGED <<call, counter, message, iv, mem, way, before>>

-----------------------------------------------------------------------------
\* The message goes from the output of the one call to the input of the other,
\* and may be changed on the way; the other call has an output of its own or not.
Deliver ==
  /\ pc = "sealed"
  /\ way' \in Ways
  /\ place' \in Places
  /\ LET sealed == mem[place]
         input  == IF way' = "data" THEN [sealed EXCEPT ![0] = Xor(@, Changed)] ELSE sealed
     IN  mem' = [p \in Places |-> IF p = "buf" THEN input ELSE Garbage]
  /\ tag' = [tag EXCEPT !.forged = (way' = "tag")]
  /\ iv' = IF way' = "iv" THEN iv + 2 * Calls + 2 ELSE iv
  /\ IF way' = "length" THEN len' \in Sizes \ {len} ELSE UNCHANGED len
  /\ before' = mem'
  /\ pc' = IF kind = "aead" THEN "verify" ELSE "open"
  /\ UNCHANGED <<call, counter, kind, used>>

\* ime_aead_dec() compares all four words of the tag and returns before it
\* touches the output.
Verify ==
  /\ pc = "verify"
  /\ pc' = IF Tag(iv, "buf") = tag THEN "open" ELSE "refused"
  /\ UNCHANGED <<call, counter, message, iv, mem, tag, way, before, used>>

Open ==
  /\ pc = "open"
  /\ mem' = Crypted(iv, "buf", place)
  /\ pc' = "opened"
  /\ UNCHANGED <<call, counter, message, iv, tag, way, before, used>>

NextMessage ==
  /\ pc \in {"opened", "refused"}
  /\ pc' = "app"
  /\ UNCHANGED <<call, counter, message, iv, mem, tag, way, before, used>>

Done == pc = "app" /\ call = Calls /\ UNCHANGED vars

Next ==
  SealCall \/ Encrypt \/ Authenticate \/ Deliver \/ Verify \/ Open \/ NextMessage \/ Done

Spec == Init /\ [][Next]_vars

-----------------------------------------------------------------------------
(***************************************************************************)
(* A message that arrives as it was sent is opened and gives the data; one *)
(* that was changed in any way is refused and leaves both buffers alone.   *)
(* (Without a tag there is no refusal, and no promise.)                    *)
(***************************************************************************)
OpenedOrUntouched ==
  /\ pc = "refused" => way # "none" /\ mem = before
  /\ pc = "opened" /\ kind = "aead" => way = "none"
  /\ pc = "opened" /\ way = "none" => \A u \in 0 .. len - 1 : mem[place][u] = {}

(***************************************************************************)
(* No block of key stream serves twice: not for two messages, nor for the  *)
(* data of a message and the key of its tag.                               *)
(***************************************************************************)
StreamsApart == \A x, y \in used : x[1] = y[1] /\ x[2] = y[2] => x = y

(***************************************************************************)
(* The inductive invariant.  An IV of a message is even and tells which    *)
(* message, or odd and older than the counter; a tag is right exactly if   *)
(* the message has not been changed.                                       *)
(***************************************************************************)
TypeOK ==
  /\ pc \in {"app", "crypt", "auth", "sealed", "verify", "open", "opened", "refused"}
  /\ call \in Nat /\ counter \in Nat /\ iv \in Nat /\ len \in Sizes \cup {0}
  /\ kind \in {"aead", "chacha"} /\ place \in Places /\ way \in Ways
  /\ mem \in [Places -> [Units -> SUBSET (Nat \X Nat)]]

\* v is the IV of message c.
IVOf(v, c) == v = 2 * c \/ \E q \in 0 .. counter - 1 : v = 2 * q + 1

StreamsOK ==
  /\ used \subseteq Nat \X Nat \X {"data", "tag"} \X Nat
  /\ \A x \in used : IVOf(x[1], x[4]) /\ x[4] <= call /\ (x[2] = 0 <=> x[3] = "tag")
  /\ \A x, y \in used : x[1] = y[1] => x[4] = y[4]

\* While a message is sealed, its IV is in no other stream.
SealingOK ==
  /\ pc \in {"crypt", "auth"} => IVOf(iv, call) /\ \A x \in used : x[1] = iv <=> x[4] = call
  /\ pc = "crypt" => \A x \in used : x[4] # call

\* The units that the buffer p holds are those of the message, encrypted.
Encrypted(p) == \A u \in 0 .. len - 1 : mem[p][u] = {<<iv, Block(u)>>}

MessageOK ==
  /\ pc \notin {"app", "opened", "refused"} => len \in Sizes
  /\ pc = "crypt" => mem["buf"] = Plain
  /\ pc \in {"auth", "sealed"} => Encrypted(place)
  /\ pc = "sealed" /\ kind = "aead" => tag = Tag(iv, place)
  /\ pc \in {"verify", "open"} /\ way = "none" => Encrypted("buf")
  /\ pc = "verify" => (tag = Tag(iv, "buf") <=> way = "none")
  /\ pc = "open" /\ kind = "aead" => way = "none"
  /\ pc \in {"verify", "open"} => mem = before

CipherInv == TypeOK /\ StreamsOK /\ SealingOK /\ MessageOK /\ OpenedOrUntouched
=============================================================================
