--------------------------------- MODULE Turns ---------------------------------
(***************************************************************************)
(* What decides over a turn outside the kernel: the check of the user that *)
(* judges it, what it costs and may cost, the switch to another lineage    *)
(* before the next one, and the loads of what its calls have stored.  They *)
(* share nothing in here: `scene` says which of them a behaviour is about; *)
(* the gate has then not begun, or the others are None.                    *)
(*                                                                         *)
(* The ledger has three instances: lineages at prices that change, without *)
(* searches; searches, whose usage may be lost with the process; and the   *)
(* budget of a turn at a fixed price.                                      *)
(***************************************************************************)
EXTENDS VerificationGate

CONSTANTS
  Kinds, MaxCalls,                                    \* of the calls of an answer
  Abis, FirstAbi, MaxLineages,                        \* of the lineages
  MaxRuns, MaxRoles, MaxSteps, MaxCrashes, MaxNotes,  \* bounds of the switch
  Usages,                                     \* of an answer
  PlainKinds, SearchKinds,                    \* of its calls, without searches and with
  RisingBook, FixedBook,                      \* the prices of the ledger, of the budget
  LedgerBounds, SearchBounds, BudgetBounds,   \* [time, limit, runs, roles, attempts, lines]
  Candidates, Nobody, Loaders, Bytes, Bad,    \* of the store and its loads
  MaxBytes, MaxDamage, IoBuffer, RangeLimit

VARIABLES
  scene, frame, broken, notes, tail, sel, todo, input, carried, refused, crashes,
  j, ledger, account, search, bill, risen,
  made, safe, entry, kept, temp, data, synced, damage,
  pc, state, queue, hashed, failed, pub, abo, promised, load

Switch == INSTANCE LineageSwitch WITH j <- tail

\* The ledger, with what is proved about it.
Ledger == INSTANCE CostLedgerProofs
  WITH Kinds <- PlainKinds, Book <- RisingBook, turn <- account,
       MaxTime <- LedgerBounds.time, Limit <- LedgerBounds.limit, MaxRuns <- LedgerBounds.runs,
       MaxRoles <- LedgerBounds.roles, MaxAttempts <- LedgerBounds.attempts,
       MaxLineages <- LedgerBounds.lines
Searches == INSTANCE CostLedgerProofs
  WITH Kinds <- SearchKinds, Book <- RisingBook, turn <- account,
       MaxTime <- SearchBounds.time, Limit <- SearchBounds.limit, MaxRuns <- SearchBounds.runs,
       MaxRoles <- SearchBounds.roles, MaxAttempts <- SearchBounds.attempts,
       MaxLineages <- SearchBounds.lines
Budget == INSTANCE CostLedgerProofs
  WITH Kinds <- PlainKinds, Book <- FixedBook, turn <- account,
       MaxTime <- BudgetBounds.time, Limit <- BudgetBounds.limit, MaxRuns <- BudgetBounds.runs,
       MaxRoles <- BudgetBounds.roles, MaxAttempts <- BudgetBounds.attempts,
       MaxLineages <- BudgetBounds.lines

\* Objects that are loaded in ranges, and damaged meanwhile.
Loads == INSTANCE ContentStore

ASSUME CallsAssumption ==
  Kinds \subseteq Switch!AllKinds /\ MaxCalls \in Nat \ {0}
ASSUME LineagesAssumption ==
  Switch!AbisAssumption /\ Switch!LineagesAssumption /\ Switch!BoundsAssumption
ASSUME NumbersAssumption == None \notin Nat
ASSUME PricesAssumption ==
  Ledger!CostAssumption /\ Searches!CostAssumption /\ Budget!CostAssumption
ASSUME UsesAssumption ==
  /\ PlainKinds \subseteq Switch!AllKinds \ {"search"} /\ SearchKinds \subseteq Switch!AllKinds
  /\ Len(FixedBook) = 1 /\ Usages # {}
ASSUME LoadsAssumption ==
  Loads!NobodyAssumption /\ Loads!BytesAssumption /\ Loads!ReadAssumption

switchVars ==
  <<frame, broken, notes, tail, sel, todo, input, carried, refused, crashes>>
SwitchOff ==
  /\ frame = None /\ broken = None /\ notes = None /\ tail = None /\ sel = None
  /\ todo = None /\ input = None /\ carried = None /\ refused = None /\ crashes = None

ledgerVars == <<j, ledger, account, search, bill, risen>>
LedgerOff ==
  /\ j = None /\ ledger = None /\ account = None /\ search = None /\ bill = None
  /\ risen = None
loadVars ==
  <<made, safe, entry, kept, temp, data, synced, damage, pc, state, queue,
    hashed, failed, pub, abo, promised, load>>
LoadOff ==
  /\ made = None /\ safe = None /\ entry = None /\ kept = None /\ temp = None /\ data = None
  /\ synced = None /\ damage = None /\ pc = None /\ state = None /\ queue = None
  /\ hashed = None /\ failed = None /\ pub = None /\ abo = None /\ promised = None
  /\ load = None

TurnsBegin ==
  /\ Init
  /\ IF scene = "switch" THEN Switch!Init ELSE SwitchOff
  /\ CASE scene = "ledger" -> Ledger!Init [] scene = "searches" -> Searches!Init
       [] scene = "budget" -> Budget!Init [] OTHER -> LedgerOff
  /\ IF scene = "load" THEN Loads!Init ELSE LoadOff

TurnsInit ==
  /\ scene \in {"gate", "switch", "ledger", "searches", "budget", "load"}
  /\ TurnsBegin

TurnsNext ==
  /\ UNCHANGED scene
  /\ \/ /\ scene = "gate" /\ Next
        /\ UNCHANGED <<switchVars, ledgerVars, loadVars>>
     \/ /\ scene = "switch" /\ Switch!Next
        /\ UNCHANGED <<vars, ledgerVars, loadVars>>
     \/ /\ \/ scene = "ledger" /\ Ledger!Next
           \/ scene = "searches" /\ Searches!Next
           \/ scene = "budget" /\ Budget!Next
        /\ UNCHANGED <<vars, switchVars, loadVars>>
     \/ /\ scene = "load" /\ Loads!Next
        /\ UNCHANGED <<vars, switchVars, ledgerVars>>

turnsVars == <<scene, vars, switchVars, ledgerVars, loadVars>>
TurnsSpec == TurnsInit /\ [][TurnsNext]_turnsVars

-----------------------------------------------------------------------------
\* The two reducers of the journal agree on every boundary; a lineage owes the
\* summary of the one it replaced, opens with it unless a process died on the way,
\* and no run starts in the middle of a switch.
SwitchIsWhole ==
  scene = "switch" =>
    /\ Switch!TypeOK /\ Switch!BoundaryIsSelectable /\ Switch!SummaryIsItsOwn
    /\ Switch!NothingForgotten /\ Switch!NoRunInASwitch

\* Every journal has a report; it never says more than the provider charges and
\* the rise of a price before the result of a search was committed, says exactly
\* what was charged when it calls itself complete and no search was made, and
\* agrees with the projection on what is settled, over lineages, searches, prices
\* that change and answers that were lost.  A turn with a budget spends less than
\* its limit and one answer.
LedgerIsTrue ==
  /\ scene = "ledger" =>
       /\ Ledger!TypeOK /\ Ledger!LedgerReadsEveryJournal /\ Ledger!LedgerIsLowerBound
       /\ Ledger!CompleteIsExact /\ Ledger!ClosedMeansSettled
  /\ scene = "searches" => Searches!LedgerReadsEveryJournal /\ Searches!LedgerIsLowerBound
  /\ scene = "budget" => Budget!SpendIsBounded

\* Whatever happens to the object between two ranges, what a load returns is
\* the content its name stands for.
LoadsAreWhole == scene = "load" => Loads!LoadsWhatItNames
=============================================================================
