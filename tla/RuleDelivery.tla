---------------------------- MODULE RuleDelivery ----------------------------
(***************************************************************************)
(* What the pipeline promises about one approved proposal, without jobs,   *)
(* branches, workers or registries: an implementation comes into play only *)
(* after it was put before the developer and accepted by him, and from     *)
(* then on it stays that very implementation.  A proposal that is dropped  *)
(* never comes into play.                                                  *)
(***************************************************************************)
EXTENDS TLAPS

CONSTANTS
  Works,  \* the implementations there may be
  NoWork  \* none of them

VARIABLES
  stage,     \* how far the proposal has come
  underEye,  \* the implementation the developer has before him
  product,   \* the implementation he has accepted
  inPlay     \* the implementation that new sets are given, if any

vars == <<stage, underEye, product, inPlay>>

Stages == {"approved", "making", "review", "accepted", "live", "dropped"}

TypeOK ==
  /\ stage \in Stages
  /\ underEye \in Works \cup {NoWork}
  /\ product \in Works \cup {NoWork}
  /\ inPlay \in Works \cup {NoWork}

Init ==
  /\ stage = "approved"
  /\ underEye = NoWork
  /\ product = NoWork
  /\ inPlay = NoWork

Make ==
  /\ stage = "approved"
  /\ stage' = "making"
  /\ UNCHANGED <<underEye, product, inPlay>>

Present(work) ==
  /\ stage \in {"making", "review"}
  /\ stage' = "review"
  /\ underEye' = work
  /\ UNCHANGED <<product, inPlay>>

MakeAnew ==
  /\ stage \in {"making", "review"}
  /\ stage' = "making"
  /\ underEye' = NoWork
  /\ UNCHANGED <<product, inPlay>>

Accept ==
  /\ stage = "review"
  /\ stage' = "accepted"
  /\ product' = underEye
  /\ UNCHANGED <<underEye, inPlay>>

GoLive ==
  /\ stage = "accepted"
  /\ stage' = "live"
  /\ inPlay' = product
  /\ UNCHANGED <<underEye, product>>

Withdraw ==
  /\ stage = "live"
  /\ inPlay' = NoWork
  /\ UNCHANGED <<stage, underEye, product>>

PutBack ==
  /\ stage = "live"
  /\ inPlay' = product
  /\ UNCHANGED <<stage, underEye, product>>

Drop ==
  /\ stage \in Stages \ {"live", "dropped"}
  /\ stage' = "dropped"
  /\ UNCHANGED <<underEye, product, inPlay>>

Next ==
  \/ Make
  \/ \E work \in Works : Present(work)
  \/ MakeAnew
  \/ Accept
  \/ GoLive
  \/ Withdraw
  \/ PutBack
  \/ Drop

Spec == Init /\ [][Next]_vars

-----------------------------------------------------------------------------
(* New sets are given nothing but the implementation that was accepted,    *)
(* and the acceptance was of an implementation.                            *)
PlayedWasAccepted ==
  /\ inPlay # NoWork => stage = "live" /\ inPlay = product
  /\ stage \in {"accepted", "live"} => product \in Works

\* What is before the developer when he accepts.
DeliveryInv ==
  /\ PlayedWasAccepted
  /\ stage = "review" => underEye \in Works

LEMMA DeliveryStep == DeliveryInv /\ [Next]_vars => DeliveryInv'
<1> SUFFICES ASSUME DeliveryInv, [Next]_vars PROVE DeliveryInv'
  OBVIOUS
<1> USE DEF DeliveryInv, PlayedWasAccepted
<1>1. CASE Make \/ MakeAnew \/ Drop
  BY <1>1 DEF Make, MakeAnew, Drop, Stages
<1>2. CASE \E work \in Works : Present(work)
  BY <1>2 DEF Present
<1>3. CASE Accept
  BY <1>3 DEF Accept
<1>4. CASE GoLive \/ Withdraw \/ PutBack
  BY <1>4 DEF GoLive, Withdraw, PutBack
<1>5. CASE UNCHANGED vars
  BY <1>5 DEF vars
<1>6. QED
  BY <1>1, <1>2, <1>3, <1>4, <1>5 DEF Next

\* Whatever happens, what is played is what was accepted.
THEOREM AcceptedOnly == Spec => []PlayedWasAccepted
<1>1. Init => DeliveryInv
  BY DEF Init, DeliveryInv, PlayedWasAccepted
<1>2. DeliveryInv => PlayedWasAccepted
  BY DEF DeliveryInv
<1>3. QED
  BY <1>1, <1>2, DeliveryStep, PTL DEF Spec
=============================================================================
