----------------------------- MODULE BondDispute -----------------------------
(***************************************************************************)
(* A dispute over an operator's bond, as src/enforcement.rs times and      *)
(* decides it.  The operator's claim is mined at height 0.  A watcher may  *)
(* challenge an invalid claim for `challenge` blocks; each of `rounds`     *)
(* responses takes at most `window` blocks; a disprove transaction is      *)
(* confirmed beyond reorganisation within `margin` blocks; from `take` on  *)
(* the challenge window counts as elapsed and from `recovery` on the       *)
(* emergency path is open.  Decide is asked again in every state.          *)
(*                                                                         *)
(* The chain, the watchers and the pipeline that produces the evidence are *)
(* external: enforcement.rs only receives the evidence they lead to.       *)
(***************************************************************************)
EXTENDS Enforcement

CONSTANTS
  Policies,       \* candidate timing policies
  BondPolicies,   \* candidate bond policies
  Watchers

ASSUME PolicyAssumption ==
  Policies \subseteq TimingPolicy /\ BondPolicies \subseteq BondPolicy

VARIABLES
  timing,          \* the timing policy in force
  bond,            \* the bond policy in force
  posted,          \* sats the operator has locked for it
  statementValid,  \* whether the claimed statement is true
  gates,           \* the take gates whose evidence is in hand
  height,          \* blocks since the claim was mined
  online,          \* the watchers online
  stage,           \* "open", "challenged", "disproved" or "confirmed"
  since,           \* height at which the stage, or its last round, began
  round,           \* responses the operator has given
  missed           \* a block was mined that no watcher was there to prevent

dispute == <<stage, since, round>>
setup == <<timing, bond, posted, statementValid>>
vars == <<setup, gates, height, online, dispute, missed>>

(* Mutant of Evidence: the window counts as elapsed at one height only. *)
EvidenceWindowOnce ==
  [statementValid    |-> statementValid,
   gates             |-> gates,
   windowElapsed     |-> height = timing.take,
   challenged        |-> ~statementValid /\ stage # "open",
   disproveConfirmed |-> stage = "confirmed",
   allOffline        |-> online = {}]

Evidence ==
  [statementValid    |-> statementValid,
   gates             |-> gates,
   windowElapsed     |-> height >= timing.take,
   challenged        |-> ~statementValid /\ stage # "open",
   disproveConfirmed |-> stage = "confirmed",
   allOffline        |-> online = {}]

Decision == Decide(Evidence)

-----------------------------------------------------------------------------
Init ==
  /\ timing \in {t \in Policies : ValidateTiming(t)}
  /\ bond \in {b \in BondPolicies : RequiredBond(b) # None}
  /\ posted = RequiredBond(bond)
  /\ statementValid \in BOOLEAN
  /\ gates = {}
  /\ height = 0
  /\ online \in SUBSET Watchers
  /\ stage = "open" /\ since = 0 /\ round = 0
  /\ missed = FALSE

(* A watcher can publish the disprove: the operator has given its last     *)
(* response, or let a response window pass.                                *)
DisproveReady ==
  /\ stage = "challenged"
  /\ round = timing.rounds \/ height >= since + timing.window

(* The next block would end the time a watcher has for its transaction. *)
WatcherDue ==
  \/ ~statementValid /\ stage = "open" /\ height >= timing.challenge
  \/ DisproveReady

(* Bitcoin keeps confirming: a published disprove is buried within the     *)
(* margin.  A watcher that is online never lets its time pass.             *)
Mine ==
  /\ height < timing.recovery
  /\ stage = "disproved" => height < since + timing.margin
  /\ WatcherDue => online = {}
  /\ height' = height + 1
  /\ missed' = (missed \/ WatcherDue)
  /\ UNCHANGED <<setup, gates, online, dispute>>

Challenge ==
  /\ ~statementValid /\ stage = "open" /\ online # {}
  /\ stage' = "challenged" /\ since' = height /\ round' = 0
  /\ UNCHANGED <<setup, gates, height, online, missed>>

Respond ==
  /\ stage = "challenged"
  /\ round < timing.rounds /\ height <= since + timing.window
  /\ round' = round + 1 /\ since' = height
  /\ UNCHANGED <<setup, gates, height, online, stage, missed>>

Disprove ==
  /\ DisproveReady /\ online # {}
  /\ stage' = "disproved" /\ since' = height
  /\ UNCHANGED <<setup, gates, height, online, round, missed>>

Confirm ==
  /\ stage = "disproved"
  /\ stage' = "confirmed"
  /\ UNCHANGED <<setup, gates, height, online, since, round, missed>>

(* A gate's evidence arrives; for an invalid statement too, since no gate  *)
(* but the statement itself is taken to depend on its truth.               *)
Obtain(gate) ==
  /\ gate \notin gates
  /\ gates' = gates \cup {gate}
  /\ UNCHANGED <<setup, height, online, dispute, missed>>

ComeOrGo(watcher) ==
  /\ online' = IF watcher \in online THEN online \ {watcher}
                                     ELSE online \cup {watcher}
  /\ UNCHANGED <<setup, gates, height, dispute, missed>>

Next ==
  \/ Mine
  \/ Challenge
  \/ Respond
  \/ Disprove
  \/ Confirm
  \/ \E gate \in TakeGates : Obtain(gate)
  \/ \E watcher \in Watchers : ComeOrGo(watcher)

(* Bitcoin liveness, an honest watcher that acts while it is online, and a *)
(* pipeline that completes: the assumptions README.md lists.               *)
Fairness ==
  /\ WF_vars(Mine)
  /\ WF_vars(Challenge)
  /\ WF_vars(Disprove)
  /\ WF_vars(Confirm)
  /\ \A gate \in TakeGates : WF_vars(Obtain(gate))

Spec == Init /\ [][Next]_vars

FairSpec == Spec /\ Fairness

-----------------------------------------------------------------------------
(* Properties *)

(* TimingPolicy::validate leaves room for the whole dispute: if no watcher *)
(* deadline passed unattended, an invalid claim has been disproved for     *)
(* good before any block after the one at which the take window elapses,   *)
(* and decide says so unless every watcher is offline when it is asked.    *)
(* Both shipped policies leave no slack, so the last step of a dispute may *)
(* still be pending at height `take` itself.                               *)
SlashedInTime ==
  (/\ ~statementValid
   /\ ~missed
   /\ height > timing.take)
  => Decision = IF online = {} THEN "OfflineWatcherAssumptionFailure"
                               ELSE "OperatorSlashed"

(* A take or a slash, once decided, gives way only while every watcher is  *)
(* offline, never to its opposite: no block, response or late evidence     *)
(* moves it otherwise.  (It does give way: decide looks at the offline     *)
(* control before the confirmed disprove.)                                 *)
DecisionsStable ==
  [][(/\ Decision \in {"OperatorTake", "OperatorSlashed"}
      /\ Decision' # Decision)
     => (/\ online' = {}
         /\ Decision' \notin {"OperatorTake", "OperatorSlashed"})]_vars

(* The bond is worth the whole graph's fees, the watcher's reward and the  *)
(* protected value together, and no amount of sats wrapped around          *)
(* (BondPolicy::required_bond_sats).                                       *)
BondCovers ==
  posted - bond.vbytes * bond.feeRate - bond.reward >= bond.value

(* A watcher that never leaves gets every invalid claim slashed for good.  *)
InvalidEventuallySlashed ==
  (~statementValid /\ [](online # {})) => <>[](Decision = "OperatorSlashed")

(* An operator whose claim is true gets its take for good once watchers    *)
(* stay, whatever happened before.                                         *)
HonestEventuallyTakes ==
  (statementValid /\ <>[](online # {})) => <>[](Decision = "OperatorTake")

=============================================================================
