--------------------------- MODULE MCEnvelopeCodec ---------------------------
(***************************************************************************)
(* Samples at and beyond every limit, with every count of list items up to *)
(* one too many; alterations replace, drop, insert or append one digit, or *)
(* cut the input off.                                                      *)
(***************************************************************************)
EXTENDS EnvelopeCodec

MCItem(amount, script) == [amount |-> amount, script |-> script]

MCItems ==
  {<< >>, <<MCItem(3, <<0>>)>>, <<MCItem(0, << >>), MCItem(1, <<2>>)>>,
   <<MCItem(1, <<1, 1>>)>>}

MCTooMany == <<MCItem(0, << >>), MCItem(0, << >>), MCItem(0, << >>)>>

MCEnvelope(kind, vtxo, spend, prevouts, outcome, payouts) ==
  [kind |-> kind, header |-> 2, vtxo |-> vtxo, anchor |-> <<1>>,
   spend |-> spend, inputIndex |-> 0, prevouts |-> prevouts, context |-> 3,
   evidence |-> 1, outcome |-> outcome, payouts |-> payouts, pins |-> 2]

MCSamples ==
  {MCEnvelope(OwnerExit, v, <<0>>, p, << >>, << >>) :
     v \in {<< >>, <<1>>, <<1, 0>>}, p \in MCItems \cup {MCTooMany}}
  \cup {MCEnvelope(VirtualCet, <<0>>, s, p, o, q) :
          s \in {<<0, 1>>, <<0, 1, 2>>},
          p \in MCItems \ {<<MCItem(3, <<0>>)>>},
          o \in {<< >>, <<1>>, <<1, 1>>}, q \in MCItems \cup {MCTooMany}}

MCAlterations(bytes) ==
  {[bytes EXCEPT ![i] = d] : i \in 1..Len(bytes), d \in Digit}
    \cup {RemoveAt(bytes, i) : i \in 1..Len(bytes)}
    \cup {InsertAt(bytes, i, d) : i \in 1..Len(bytes), d \in {0, 1}}
    \cup {SubSeq(bytes, 1, i) : i \in 0..Len(bytes)}
    \cup {Append(bytes, d) : d \in Digit}
=============================================================================
