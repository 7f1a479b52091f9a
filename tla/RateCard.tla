------------------------------ MODULE RateCard ------------------------------
(***************************************************************************)
(* What a unit of work costs an organization: CreditRatesService and the   *)
(* rate card that CreditConsumptionService reads before it charges.  The   *)
(* platform keeps default rates; an administrator replaces the overrides   *)
(* of an organization or clears them, and the change is logged when it has *)
(* been written.  Which account pays, and whether it can, is CreditLedger. *)
(***************************************************************************)
EXTENDS Integers

CONSTANTS
  Clerks,        \* requests in flight
  Work,          \* ConsumptionResourceType: what is charged for
  DefaultRates,  \* DEFAULT_RATES
  RateBodies,    \* bodies of PUT /organizations/:id/credit-rates: functions on
                 \* some kinds of work
  MaxRateChanges \* bound

ASSUME RatesAssumption ==
  /\ DefaultRates \in [Work -> Nat]
  /\ \A body \in RateBodies : DOMAIN body \subseteq Work /\ body \in [DOMAIN body -> Nat]

VARIABLES
  overrides,   \* org_settings.credit_rates; the empty function is no document
  clerk,       \* what each request is doing
  rateLog,     \* the changes in the audit log
  charges,     \* rows charged: kind of work and amount
  rateChanges,
  silent       \* history: changes written whose entry was lost

rateVars == <<overrides, clerk, rateLog, charges, rateChanges, silent>>

AtDesk == [at |-> "desk"]
NoOverrides == [k \in {} |-> 0]

(* mergeCreditRates                                                        *)
Rates(custom) == [k \in Work |-> IF k \in DOMAIN custom THEN custom[k] ELSE DefaultRates[k]]

(* A card that says what the defaults say is not custom.                   *)
Shown(custom) ==
  [rates |-> Rates(custom), source |-> IF Rates(custom) = DefaultRates THEN "default" ELSE "custom"]

RatesInit ==
  /\ overrides = NoOverrides
  /\ clerk = [c \in Clerks |-> AtDesk]
  /\ rateLog = {} /\ charges = {} /\ rateChanges = 0 /\ silent = {}

-----------------------------------------------------------------------------
(* setCustomRatesForOrg and clearCustomRatesForOrg read what was, ...      *)

BeginChange(c, custom) ==
  /\ clerk[c] = AtDesk /\ rateChanges < MaxRateChanges
  /\ rateChanges' = rateChanges + 1
  /\ clerk' = [clerk EXCEPT ![c] = [at |-> "write", custom |-> custom, before |-> Shown(overrides)]]
  /\ UNCHANGED <<overrides, rateLog, charges, silent>>

SetRates(c, body) == DOMAIN body # {} /\ BeginChange(c, body)
ClearRates(c) == BeginChange(c, NoOverrides)

(* ... write the overrides over whatever is there now, ...                 *)
WriteRates(c) ==
  /\ clerk[c].at = "write"
  /\ overrides' = clerk[c].custom
  /\ clerk' = [clerk EXCEPT ![c].at = "log"]
  /\ UNCHANGED <<rateLog, charges, rateChanges, silent>>

(* What is answered and logged as the new card.  The source is what was    *)
(* asked for, whatever the rates are.                                      *)
(* Mutant: the new card is made of the one read before.                    *)
After_OnTop(custom, before) ==
  [rates |-> [k \in Work |-> IF k \in DOMAIN custom THEN custom[k] ELSE before.rates[k]],
   source |-> IF custom = NoOverrides THEN "default" ELSE "custom"]

After(custom, before) ==
  [rates |-> Rates(custom), source |-> IF custom = NoOverrides THEN "default" ELSE "custom"]

(* ... and log it; that the entry cannot be saved goes unnoticed.          *)
LogRates(c, saved) ==
  LET after == After(clerk[c].custom, clerk[c].before) IN
  /\ clerk[c].at = "log"
  /\ rateLog' = rateLog \cup {e \in {[before |-> clerk[c].before, after |-> after]} : saved}
  /\ silent' = silent \cup {r \in {Rates(clerk[c].custom)} : ~saved}
  /\ clerk' = [clerk EXCEPT ![c] = AtDesk]
  /\ UNCHANGED <<overrides, charges, rateChanges>>

-----------------------------------------------------------------------------
(* consumeCredits: the rate is read first, and the transaction charges it  *)
(* some time later.  A rate of nothing is refused as not configured.       *)

ReadRate(c, k) ==
  /\ clerk[c] = AtDesk
  /\ Rates(overrides)[k] > 0
  /\ clerk' = [clerk EXCEPT ![c] = [at |-> "charge", kind |-> k, amount |-> Rates(overrides)[k]]]
  /\ UNCHANGED <<overrides, rateLog, charges, rateChanges, silent>>

ChargeRate(c) ==
  /\ clerk[c].at = "charge"
  /\ charges' = charges \cup {[kind |-> clerk[c].kind, amount |-> clerk[c].amount]}
  /\ clerk' = [clerk EXCEPT ![c] = AtDesk]
  /\ UNCHANGED <<overrides, rateLog, rateChanges, silent>>

RatesNext ==
  \E c \in Clerks :
    \/ \E body \in RateBodies : SetRates(c, body)
    \/ ClearRates(c) \/ WriteRates(c)
    \/ \E saved \in BOOLEAN : LogRates(c, saved)
    \/ \E k \in Work : ReadRate(c, k)
    \/ ChargeRate(c)

RatesSpec == RatesInit /\ [][RatesNext]_rateVars

-----------------------------------------------------------------------------
(* Properties                                                              *)

(* Cards that were ever in force: the defaults, those the log names, those *)
(* it lost, and those that are about to be logged.                         *)
KnownCards ==
  {DefaultRates} \cup {e.after.rates : e \in rateLog} \cup silent
    \cup {Rates(clerk[c].custom) : c \in {d \in Clerks : clerk[d].at = "log"}}

(* The log explains the bill ("BILLING_RATES_CHANGED" with before and      *)
(* after, credit-rates.service.ts:89): every amount charged, the card now  *)
(* in force and the one a logged change replaced are cards the history of  *)
(* changes names, however changes and charges overlapped, unless an entry  *)
(* was lost.                                                               *)
ChargesAreExplained ==
  /\ \A x \in charges : \E card \in KnownCards : card[x.kind] = x.amount
  /\ Rates(overrides) \in KnownCards
  /\ \A e \in rateLog : e.before.rates \in KnownCards
=============================================================================
