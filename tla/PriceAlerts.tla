---------------------------- MODULE PriceAlerts -----------------------------
(***************************************************************************)
(* risk/alerts.py: AlertManager on one market.  Users register, replace,   *)
(* cancel and remove alerts between the checks of market updates.          *)
(***************************************************************************)
EXTENDS Clock, FiniteSets

CONSTANTS AlertIds,   \* alert_id values
          Quotes,     \* prices, and thresholds, in cents; 0 is "no price in this update"
          Cooldown,   \* cooldown_seconds of a repeating alert
          MaxAlerts   \* bound: registrations in a run

ASSUME AlertAssumption == Quotes \subseteq Nat /\ Cooldown \in Nat \ {0} /\ MaxAlerts \in Nat

NeverFired == -1

VARIABLES alerts,      \* _alerts: id to alert, for the registered ids
          registered,  \* registrations so far
          lastChecked, \* the alerts the last check() returned
          firings      \* history: per id, times fired and last time since registration

alertVars == <<alerts, registered, lastChecked, firings>>

Alert == [condition : {"price_above", "price_below"}, threshold : Quotes, repeating : BOOLEAN,
          status : {"active", "triggered", "cancelled"}, last : NeverFired..Horizon]

AlertTypeOK ==
    /\ DOMAIN alerts \subseteq AlertIds /\ \A a \in DOMAIN alerts : alerts[a] \in Alert
    /\ registered \in 0..MaxAlerts
    /\ lastChecked \subseteq AlertIds
    /\ firings \in [AlertIds -> [count : Nat, last : NeverFired..Horizon]]

Unfired == [count |-> 0, last |-> NeverFired]

AlertInit ==
    /\ alerts = [a \in {} |-> {}] /\ registered = 0 /\ lastChecked = {}
    /\ firings = [a \in AlertIds |-> Unfired]

\* add_alert: an alert of the same id is replaced, whatever its status.
AddAlert(a) ==
    /\ registered < MaxAlerts /\ registered' = registered + 1
    /\ \E c \in {"price_above", "price_below"}, t \in Quotes \ {0}, r \in BOOLEAN :
          alerts' = [b \in DOMAIN alerts \cup {a} |->
              IF b = a THEN [condition |-> c, threshold |-> t, repeating |-> r,
                             status |-> "active", last |-> NeverFired]
                       ELSE alerts[b]]
    /\ firings' = [firings EXCEPT ![a] = Unfired]
    /\ UNCHANGED <<lastChecked, now>>

RemoveAlert(a) ==
    /\ a \in DOMAIN alerts
    /\ alerts' = [b \in DOMAIN alerts \ {a} |-> alerts[b]]
    /\ UNCHANGED <<registered, lastChecked, firings, now>>

\* cancel_alert, also of one that has fired.
CancelAlert(a) ==
    /\ a \in DOMAIN alerts
    /\ alerts' = [alerts EXCEPT ![a].status = "cancelled"]
    /\ UNCHANGED <<registered, lastChecked, firings, now>>

\* Mutant of CoolingDown: the cooldown is kept by alerts that fire once only.
CoolingDownOneShots(alert) ==
    ~alert.repeating /\ alert.last # NeverFired /\ Since(alert.last) < Cooldown

CoolingDown(alert) ==
    alert.repeating /\ alert.last # NeverFired /\ Since(alert.last) < Cooldown

Reached(alert, price) ==
    /\ price > 0
    /\ IF alert.condition = "price_above" THEN price >= alert.threshold
                                          ELSE price <= alert.threshold

Fires(a, price) ==
    /\ alerts[a].status = "active"
    /\ ~CoolingDown(alerts[a])
    /\ Reached(alerts[a], price)

\* check(): volume and spread alerts differ from price alerts in the field they read only.
Check(price) ==
    LET fired == {a \in DOMAIN alerts : Fires(a, price)} IN
    /\ alerts' = [a \in DOMAIN alerts |->
          IF a \notin fired THEN alerts[a]
          ELSE [alerts[a] EXCEPT !.last = now,
                                 !.status = IF alerts[a].repeating THEN "active" ELSE "triggered"]]
    /\ lastChecked' = fired
    /\ firings' = [a \in AlertIds |->
          IF a \in fired THEN [count |-> firings[a].count + 1, last |-> now] ELSE firings[a]]
    /\ UNCHANGED <<registered, now>>

AlertTick == Tick /\ UNCHANGED alertVars

AlertNext ==
    \/ \E a \in AlertIds : AddAlert(a) \/ RemoveAlert(a) \/ CancelAlert(a)
    \/ \E p \in Quotes : Check(p)
    \/ AlertTick

AlertSpec == now = 0 /\ AlertInit /\ [][AlertNext]_<<alertVars, now>>

-----------------------------------------------------------------------------
\* Safety, action property.  "Alerts fire once, then deactivate unless set to repeating", and
\* a repeating one keeps its cooldown: counted from the registration, whatever cancellations,
\* replacements and updates of the market come in between.
FiresAsRegistered ==
    [][\A a \in AlertIds : firings'[a].count > firings[a].count =>
          /\ a \in DOMAIN alerts /\ alerts[a].status # "cancelled"
          /\ firings[a].count > 0 => /\ alerts[a].repeating
                                     /\ Since(firings[a].last) >= Cooldown]_<<alertVars, now>>
=============================================================================
