-------------------------- MODULE EvaluatorProofs --------------------------
(* Facts about Evaluate that hold for every observation and prior state.   *)
EXTENDS Evaluator, TLAPS

(* Evaluate returns a Result.                                              *)
LEMMA EvaluateType ==
  ASSUME NEW o, NEW p
  PROVE  /\ Evaluate(o, p).kinds \subseteq Kind
         /\ Evaluate(o, p).statusOnsale \in BOOLEAN
         /\ Evaluate(o, p).closeWatch \in BOOLEAN
<1>1. {"cancelled"} \subseteq Kind /\ {"rescheduled"} \subseteq Kind
  BY DEF Kind
<1>2. SaleKinds(o, p) \subseteq Kind
  BY DEF SaleKinds
<1>3. (Over(o) \/ Cancelled(o)) \in BOOLEAN
  BY DEF Over, Cancelled, Passed, Known
<1>4. QED
  BY <1>1, <1>2, <1>3 DEF Evaluate

(* The vetoes beat every trigger (evaluator.go:115): once the event is     *)
(* over, cancelled or moved, no sale alert is reported, whatever its dates *)
(* and its status say.                                                     *)
THEOREM VetoBeatsTriggers ==
  ASSUME NEW o \in Observation, NEW p \in Prior, Vetoed(o)
  PROVE  Evaluate(o, p).kinds \subseteq {"cancelled", "rescheduled"}
BY DEF Evaluate, Vetoed

(* Closed and open are never said in the same breath (evaluator.go:141).   *)
THEOREM NeverClosedAndOpen ==
  ASSUME NEW o \in Observation, NEW p \in Prior,
         "sale_closed" \in Evaluate(o, p).kinds
  PROVE  Evaluate(o, p).kinds \cap OpenKinds = {}
<1>1. CASE Vetoed(o)
  BY <1>1, VetoBeatsTriggers DEF OpenKinds
<1>2. CASE ~Vetoed(o)
  <2>1. Evaluate(o, p).kinds = SaleKinds(o, p)
    BY <1>2 DEF Evaluate, Vetoed
  <2>2. "sale_closed" \in SaleKinds(o, p)
    BY <2>1
  <2>3. SaleEnded(o)
    BY <2>2 DEF SaleKinds, Holds
  <2>4. QED
    BY <2>1, <2>3 DEF SaleKinds, OpenKinds
<1>3. QED
  BY <1>1, <1>2

(* At most one of the two ways of saying that the public sale is open is   *)
(* used: with a known date the date, without one the status.               *)
THEOREM DateOrStatus ==
  ASSUME NEW o \in Observation, NEW p \in Prior
  PROVE  ~({"public_open", "status_onsale"} \subseteq Evaluate(o, p).kinds)
<1>1. SUFFICES ASSUME "public_open" \in Evaluate(o, p).kinds,
                      "status_onsale" \in Evaluate(o, p).kinds
               PROVE  FALSE
  OBVIOUS
<1>2. ~Vetoed(o)
  BY <1>1, VetoBeatsTriggers
<1>3. "public_open" \in SaleKinds(o, p) /\ "status_onsale" \in SaleKinds(o, p)
  BY <1>1, <1>2 DEF Evaluate, Vetoed
<1>4. Holds("public_open", o, p) /\ Holds("status_onsale", o, p)
  BY <1>3 DEF SaleKinds
<1>5. QED
  BY <1>4 DEF Holds, Begun
=============================================================================
