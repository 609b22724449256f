---------------------------- MODULE EnvelopeCodec ----------------------------
(***************************************************************************)
(* src/envelope.rs: the canonical binary encoding of BarkSpendEnvelopeV1   *)
(* and the strict reader that decodes it.                                  *)
(*                                                                         *)
(* The bytes, their order, the length prefixes and the limits are kept;    *)
(* widths are scaled.  A byte is a digit of radix Base, an integer or a    *)
(* length prefix takes one of them, and a run of fixed-size fields that is *)
(* read and written together (genesis, nonce and VTXO id; the heights and  *)
(* script flags; an evidence's keys and signatures; the four pins) is one  *)
(* field of one digit.                                                     *)
(***************************************************************************)
EXTENDS Integers, Sequences, FiniteSets, SequencesExt

CONSTANTS
  Base,            \* radix of a byte; lengths up to Base - 1 can be written
  MaxVtxo, MaxTransaction, MaxScript, MaxOutcome, MaxPrevouts, MaxPayouts,
  MaxEnvelope,     \* limits of the format
  Samples,         \* bound: envelopes whose encodings are read
  Alterations(_)   \* bound: input -> inputs that differ from it in one place

LimitSet ==
  {MaxVtxo, MaxTransaction, MaxScript, MaxOutcome, MaxPrevouts, MaxPayouts}

(* Every limit fits the length prefix, as 2^22 fits a u32. *)
ASSUME LimitAssumption ==
  Base \in Nat /\ MaxEnvelope \in Nat /\ LimitSet \subseteq 0..Base - 1

Digit == 0..Base - 1
Bytes(max) == BoundedSeq(Digit, max)

Magic == 1
Version == 2
OwnerExit == 1
VirtualCet == 2

-----------------------------------------------------------------------------
(* Encoding *)

PutBytes(value) == <<Len(value)>> \o value

PutItem(item) == <<item.amount>> \o PutBytes(item.script)

PutItems(items) ==
  <<Len(items)>> \o FlattenSeq([i \in DOMAIN items |-> PutItem(items[i])])

EncodeEvidence(e) ==
  IF e.kind = OwnerExit THEN << <<e.evidence>> >>
  ELSE << <<e.evidence>>, PutBytes(e.outcome), PutItems(e.payouts) >>

ScriptsWithin(items) == \A i \in DOMAIN items : Len(items[i].script) <= MaxScript

ValidateLimits(e) ==
  /\ Len(e.vtxo) <= MaxVtxo
  /\ Len(e.anchor) <= MaxTransaction
  /\ Len(e.spend) <= MaxTransaction
  /\ Len(e.prevouts) <= MaxPrevouts /\ ScriptsWithin(e.prevouts)
  /\ e.kind = VirtualCet =>
       /\ Len(e.outcome) <= MaxOutcome
       /\ Len(e.payouts) <= MaxPayouts /\ ScriptsWithin(e.payouts)

(* What is put one after another. *)
Parts(e) ==
  << <<Magic>>, <<Version>>, <<e.kind>>, <<e.header>>, PutBytes(e.vtxo),
     PutBytes(e.anchor), PutBytes(e.spend), <<e.inputIndex>>,
     PutItems(e.prevouts), <<e.context>> >> \o EncodeEvidence(e) \o << <<e.pins>> >>

EncodedBytes(e) == FlattenSeq(Parts(e))

(* encode succeeds, and what it returns then is EncodedBytes. *)
Encodes(e) == ValidateLimits(e) /\ Len(EncodedBytes(e)) <= MaxEnvelope

TaggedSha256(tag, message) == [tag |-> tag, message |-> message]

StatementDigest(e) == TaggedSha256("StatementV1", EncodedBytes(e))

Items == Seq([amount : Digit, script : Seq(Digit)])

(* An owner exit has no outcome and no payouts. *)
Envelopes ==
  {e \in [kind : {OwnerExit, VirtualCet}, header : Digit, vtxo : Seq(Digit),
          anchor : Seq(Digit), spend : Seq(Digit), inputIndex : Digit,
          prevouts : Items, context : Digit, evidence : Digit,
          outcome : Seq(Digit), payouts : Items, pins : Digit] :
     e.kind = OwnerExit => e.outcome = << >> /\ e.payouts = << >>}

ASSUME SampleAssumption == Samples \subseteq Envelopes

-----------------------------------------------------------------------------
(* Decoding *)

VARIABLES
  input,      \* the bytes to decode
  offset,     \* how many of them the reader has taken
  todo,       \* the fields still to read, first one first
  envelope,   \* the fields read so far
  status      \* "reading", "accepted" or the error

vars == <<input, offset, todo, envelope, status>>

Field(form, name, max) == [form |-> form, name |-> name, max |-> max]

(* What is read before the kind of the claim is known, and after. *)
Preamble ==
  <<Field("tag", "magic", Magic), Field("tag", "version", Version),
    Field("kind", "kind", 0)>>

Body ==
  <<Field("digit", "header", 0), Field("bytes", "vtxo", MaxVtxo),
    Field("bytes", "anchor", MaxTransaction), Field("bytes", "spend", MaxTransaction),
    Field("digit", "inputIndex", 0), Field("count", "prevouts", MaxPrevouts),
    Field("digit", "context", 0), Field("digit", "evidence", 0)>>

(* A virtual CET carries more than its fixed-size evidence. *)
Layout(kind) ==
  IF kind = OwnerExit THEN Append(Body, Field("digit", "pins", 0))
  ELSE Body \o <<Field("bytes", "outcome", MaxOutcome),
                 Field("count", "payouts", MaxPayouts), Field("digit", "pins", 0)>>

Blank ==
  [kind |-> 0, header |-> 0, vtxo |-> << >>, anchor |-> << >>, spend |-> << >>,
   inputIndex |-> 0, prevouts |-> << >>, context |-> 0, evidence |-> 0,
   outcome |-> << >>, payouts |-> << >>, pins |-> 0]

EnvelopeErrors ==
  {"UnexpectedEof", "BadMagic", "UnsupportedVersion", "InvalidClaimKind",
   "Oversized", "TrailingBytes"}

Error(reason) ==
  status' = reason /\ UNCHANGED <<input, offset, todo, envelope>>

(* Reader.take, and what the field read makes of the envelope and of todo. *)
Take(len, fields, rest) ==
  IF offset + len > Len(input) THEN Error("UnexpectedEof")
  ELSE /\ offset' = offset + len
       /\ envelope' = fields
       /\ todo' = rest
       /\ UNCHANGED <<input, status>>

AtEnd == offset = Len(input)
Peek == input[offset + 1]

Set(name, value) == [envelope EXCEPT ![name] = value]

Due == Head(todo)
Reading(form) == status = "reading" /\ todo # << >> /\ Due.form = form

ReadTag ==
  /\ Reading("tag")
  /\ IF ~AtEnd /\ Peek # Due.max
     THEN Error(IF Due.name = "magic" THEN "BadMagic" ELSE "UnsupportedVersion")
     ELSE Take(1, envelope, Tail(todo))

(* The claim kind decides what follows. *)
ReadKind ==
  /\ Reading("kind")
  /\ IF AtEnd THEN Error("UnexpectedEof")
     ELSE IF Peek \notin {OwnerExit, VirtualCet} THEN Error("InvalidClaimKind")
     ELSE Take(1, Set("kind", Peek), Layout(Peek))

ReadDigit ==
  /\ Reading("digit")
  /\ IF AtEnd THEN Error("UnexpectedEof")
     ELSE Take(1, Set(Due.name, Peek), Tail(todo))

(* Mutant of ReadBytes: a length at the limit is refused. *)
ReadBytesBelowLimit ==
  /\ Reading("bytes")
  /\ IF AtEnd THEN Error("UnexpectedEof")
     ELSE IF Peek >= Due.max THEN Error("Oversized")
     ELSE Take(1 + Peek,
               Set(Due.name, SubSeq(input, offset + 2, offset + 1 + Peek)),
               Tail(todo))

ReadBytes ==
  /\ Reading("bytes")
  /\ IF AtEnd THEN Error("UnexpectedEof")
     ELSE IF Peek > Due.max THEN Error("Oversized")
     ELSE Take(1 + Peek,
               Set(Due.name, SubSeq(input, offset + 2, offset + 1 + Peek)),
               Tail(todo))

(* Mutant of ReadCount: the count is not checked before it is used. *)
ReadCountUnchecked ==
  /\ Reading("count")
  /\ IF AtEnd THEN Error("UnexpectedEof")
     ELSE Take(1, envelope,
               [i \in 1..Peek |-> Field("item", Due.name, MaxScript)]
                 \o Tail(todo))

ReadCount ==
  /\ Reading("count")
  /\ IF AtEnd THEN Error("UnexpectedEof")
     ELSE IF Peek > Due.max THEN Error("Oversized")
     ELSE Take(1, envelope,
               [i \in 1..Peek |-> Field("item", Due.name, MaxScript)]
                 \o Tail(todo))

(* One prevout or payout: its amount, then its script. *)
ReadItem ==
  /\ Reading("item")
  /\ IF offset + 2 > Len(input) THEN Error("UnexpectedEof")
     ELSE LET len == input[offset + 2]
              item == [amount |-> Peek,
                       script |-> SubSeq(input, offset + 3, offset + 2 + len)] IN
          IF len > Due.max THEN Error("Oversized")
          ELSE Take(2 + len, Set(Due.name, Append(envelope[Due.name], item)),
                    Tail(todo))

(* Mutant of Finish: bytes left over are ignored. *)
FinishIgnoringRest ==
  /\ status = "reading" /\ todo = << >>
  /\ status' = "accepted"
  /\ UNCHANGED <<input, offset, todo, envelope>>

Finish ==
  /\ status = "reading" /\ todo = << >>
  /\ status' = IF ~AtEnd THEN "TrailingBytes"
               ELSE IF ValidateLimits(envelope) THEN "accepted" ELSE "Oversized"
  /\ UNCHANGED <<input, offset, todo, envelope>>

(* Inputs are the encodings of the samples, also of those encode refuses,  *)
(* and what becomes of them when one place is altered.                     *)
Inputs ==
  LET encoded == {EncodedBytes(e) : e \in Samples} IN
  encoded \cup UNION {Alterations(bytes) : bytes \in encoded}

ASSUME InputAssumption == Inputs \subseteq Seq(Digit)

Init ==
  /\ input \in Inputs
  /\ offset = 0
  /\ todo = Preamble
  /\ envelope = Blank
  /\ status = IF Len(input) > MaxEnvelope THEN "Oversized" ELSE "reading"

Next ==
  \/ ReadTag
  \/ ReadKind
  \/ ReadDigit
  \/ ReadBytes
  \/ ReadCount
  \/ ReadItem
  \/ Finish

Spec == Init /\ [][Next]_vars

-----------------------------------------------------------------------------
(* Properties *)

(* The reader stays inside its input, and holds and still expects no more  *)
(* of any field than its limit, at every step: a count is checked before   *)
(* room is made for what it announces (Reader.count).                      *)
TypeOK ==
  /\ offset \in 0..Len(input)
  /\ ValidateLimits(envelope)
  /\ Cardinality({i \in DOMAIN todo : todo[i].form = "item"})
       <= IF MaxPrevouts > MaxPayouts THEN MaxPrevouts ELSE MaxPayouts
  /\ status \in {"reading", "accepted"} \cup EnvelopeErrors
  /\ status = "accepted" => todo = << >> /\ AtEnd

(* Decoding accepts nothing but encodings: re-encoding an accepted input   *)
(* succeeds and gives back every byte, so the statement digest of what was *)
(* decoded is the digest of the very bytes received.                       *)
Canonical ==
  status = "accepted" =>
    /\ Encodes(envelope)
    /\ StatementDigest(envelope) = TaggedSha256("StatementV1", input)

(* Decoding accepts every encoding: an input that encode produces for an   *)
(* envelope is read back as that envelope, and no other one.               *)
RoundTrip ==
  \A e \in Samples :
    (Encodes(e) /\ EncodedBytes(e) = input)
    => /\ status \in {"reading", "accepted"}
       /\ status = "accepted" => envelope = e
=============================================================================
