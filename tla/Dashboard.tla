----------------------------- MODULE Dashboard ------------------------------
(***************************************************************************)
(* The dashboard of several servers (src/my-src/src/my-server): requests   *)
(* list the configured servers, take the aggregate of the cache if it is   *)
(* fresh, and otherwise ask every server, each for at most two seconds,    *)
(* and replace the aggregate.  The cache knows neither the list it was     *)
(* made from nor the edits of the list.                                    *)
(*                                                                         *)
(* Time passes in ticks while servers are asked; listing and looking take  *)
(* none.  Of the statistics only whose they are is kept: every server has  *)
(* a card, one that fails or is late an offline card.                      *)
(***************************************************************************)
EXTENDS Naturals, FiniteSets

CONSTANTS
  Servers,     \* that may be configured
  Watchers,    \* requests at work at once
  Shown,       \* ticks an aggregate is served from the cache
  Patience     \* ticks a server is waited for

ASSUME DashboardAssumption == Shown \in Nat \ {0} /\ Patience \in Nat

Lists == SUBSET Servers
Long  == Shown + Patience + 1   \* ticks that are not told apart from more

VARIABLES
  servers,     \* the table of servers
  aggregate,   \* the cache: a set of at most one [cards, age]
  watcher,     \* [Watchers -> where its request is]
  past         \* history: [Lists -> ticks since the table was this list]

dashboardVars == <<servers, aggregate, watcher, past>>

Away == [at |-> "away", list |-> {}, waited |-> 0, cards |-> {}]

DashboardInit ==
  /\ servers \in Lists
  /\ aggregate = {}
  /\ watcher = [w \in Watchers |-> Away]
  /\ past = [l \in Lists |-> IF l = servers THEN 0 ELSE Long]

Go(w, where) == watcher' = [watcher EXCEPT ![w].at = where]
Has(w, where, cards) ==
  watcher' = [watcher EXCEPT ![w] = [Away EXCEPT !.at = where, !.cards = cards]]

-----------------------------------------------------------------------------
(* The list of servers; no edit looks at the aggregate.                      *)

Edit(new) ==
  /\ servers' = new /\ new # servers
  /\ past' = [past EXCEPT ![new] = 0]
  /\ UNCHANGED <<aggregate, watcher>>

CreateServer == \E s \in Servers \ servers : Edit(servers \cup {s})
DeleteServer == \E s \in servers : Edit(servers \ {s})
UpdateServer == \E s \in servers, t \in Servers \ servers : Edit((servers \ {s}) \cup {t})

-----------------------------------------------------------------------------
(* A request.  If the table cannot be read the list is taken to be empty.    *)

ListServers(w) ==
  /\ watcher[w].at = "away"
  /\ \E list \in {servers, {}} :
       watcher' = [watcher EXCEPT ![w] = [Away EXCEPT !.at = "look", !.list = list]]
  /\ UNCHANGED <<servers, aggregate, past>>

(* mutant: an aggregate is served as long as there is one. *)
IsFresh_Always(a) == TRUE

IsFresh(a) == a.age < Shown

LookUpAggregate(w) ==
  /\ watcher[w].at = "look"
  /\ \/ \E a \in aggregate : IsFresh(a) /\ watcher' = [watcher EXCEPT ![w].at = "shown",
                                                                   ![w].cards = a.cards]
     \/ (\A a \in aggregate : ~IsFresh(a)) /\ Go(w, "fetch")
  /\ UNCHANGED <<servers, aggregate, past>>

(* Every server is asked at once, and a card is made of what it answers.     *)
FetchAll(w) ==
  /\ watcher[w].at = "fetch"
  /\ Has(w, "keep", watcher[w].list)
  /\ UNCHANGED <<servers, aggregate, past>>

(* The last to finish is kept, whoever listed later. *)
KeepAggregate(w) ==
  /\ watcher[w].at = "keep"
  /\ aggregate' = {[cards |-> watcher[w].cards, age |-> 0]}
  /\ Go(w, "shown")
  /\ UNCHANGED <<servers, past>>

(* The answer is sent, or the client left before. *)
LeaveDashboard(w) ==
  /\ watcher[w].at # "away"
  /\ watcher' = [watcher EXCEPT ![w] = Away]
  /\ UNCHANGED <<servers, aggregate, past>>

Patient(w) ==
  \/ watcher[w].at = "away"
  \/ watcher[w].at = "fetch" /\ watcher[w].waited < Patience

DashboardTick ==
  /\ \A w \in Watchers : Patient(w)
  /\ watcher' = [w \in Watchers |-> IF watcher[w].at = "fetch"
                                    THEN [watcher[w] EXCEPT !.waited = @ + 1] ELSE watcher[w]]
  /\ aggregate' = {[a EXCEPT !.age = IF @ < Shown THEN @ + 1 ELSE @] : a \in aggregate}
  /\ past' = [l \in Lists |-> IF l = servers \/ past[l] = Long THEN past[l] ELSE past[l] + 1]
  /\ UNCHANGED servers

DashboardNext ==
  \/ CreateServer \/ DeleteServer \/ UpdateServer
  \/ \E w \in Watchers : \/ ListServers(w) \/ LookUpAggregate(w) \/ FetchAll(w)
                         \/ KeepAggregate(w) \/ LeaveDashboard(w)
  \/ DashboardTick

DashboardSpec == DashboardInit /\ [][DashboardNext]_dashboardVars

-----------------------------------------------------------------------------
Watcher == [at : {"away", "look", "fetch", "keep", "shown"},
            list : Lists, waited : 0..Patience, cards : Lists]

DashboardTypeOK ==
  /\ servers \in Lists
  /\ aggregate \subseteq [cards : Lists, age : 0..Shown]
  /\ watcher \in [Watchers -> Watcher]
  /\ past \in [Lists -> 0..Long]

(* A dashboard shows a list of servers that was configured not longer ago    *)
(* than an aggregate is kept and the servers are waited for, though slow     *)
(* requests overwrite later ones and no edit empties the cache; unless the   *)
(* table could not be read, which shows none.                                *)
DashboardIsRecent ==
  \A w \in Watchers : watcher[w].at = "shown" /\ watcher[w].cards # {} =>
    past[watcher[w].cards] <= Shown + Patience
=============================================================================
