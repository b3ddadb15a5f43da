---------------------------- MODULE MCServerSlots ----------------------------
(***************************************************************************)
(* Instances of ServerSlots for TLC.                                       *)
(***************************************************************************)
EXTENDS ServerSlots

CONSTANTS p, c, a, b, e, m,    \* tasks
          rp, ra, rb, re       \* requests

\* Parent p with child c.  In the first instance a and b are tasks of a request
\* each, a of another type than the rest; b asks for slot 3, which is slot 1.
FamilyReq    == p :> rp @@ c :> rp @@ a :> ra @@ b :> rb
FamilyParent == p :> NoTask @@ c :> p @@ a :> NoTask @@ b :> NoTask
FamilyKind   == p :> "completion" @@ c :> "completion" @@ a :> "completion" @@ b :> "completion"
FamilyKey    == p :> "k1" @@ c :> "k1" @@ a :> "k2" @@ b :> "k1"
FamilySlot   == p :> -1 @@ c :> -1 @@ a :> -1 @@ b :> 3
NoAction     == p :> 0 @@ c :> 0 @@ a :> 0 @@ b :> 0
\* In the second one request ra has two embeddings, a and e, which cannot be batched
\* with completions, and a asks for slot 3; b is a slot action on slot 2, which is
\* slot 0; m is a metrics query.
MixedReq    == FamilyReq @@ e :> ra @@ m :> re
MixedParent == FamilyParent @@ e :> NoTask @@ m :> NoTask
MixedKind   == [t \in {p, c} |-> "completion"] @@ [t \in {a, e} |-> "embedding"]
                   @@ b :> "slot_action" @@ m :> "metrics"
MixedKey    == [t \in {p, c} |-> "k1"] @@ [t \in {a, e} |-> "k2"] @@ b :> "k3" @@ m :> "k4"
MixedSlot   == [t \in {p, c, a, e, b, m} |-> IF t = a THEN 3 ELSE -1]
MixedAction == [t \in {p, c, a, e, b, m} |-> 2]
\* Three requests of one completion each.
SinglesReq    == a :> ra @@ b :> rb @@ p :> rp
SinglesParent == [t \in {a, b, p} |-> NoTask]
SinglesSlot   == [t \in {a, b, p} |-> -1]
SinglesZero   == [t \in {a, b, p} |-> 0]
SinglesKey    == [t \in {a, b, p} |-> "k1"]
Completions   == [t \in {a, b, p} |-> "completion"]
=============================================================================
