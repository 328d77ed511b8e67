---------------------------- MODULE AlertScreens ----------------------------
(***************************************************************************)
(* The app's screens that set alerts: an item's Alerts screen, Settings ->  *)
(* Alerts, the Price alerts list, and Settings -> Stores, over what the     *)
(* server holds for the user.  One item stands for all.  A setting of two   *)
(* values or more is "on" or "off": a threshold is "off" at its default.    *)
(*                                                                         *)
(* A hook keeps the callbacks of its latest call only, and none of a        *)
(* screen's once it is left; what the hook itself does is always done.      *)
(***************************************************************************)
EXTENDS Integers, Sequences, FiniteSets, SequencesExt, Queries

CONSTANTS
    Stores, Categories,     \* the user's stores; the categories with a budget
    Flags,                  \* the switches of the profile: thresholds, weekly summary
    MaxAlertActs,           \* bound: what the user does
    MaxAlertFaults          \* bound: calls and answers lost, Premium lapsing

\* Keys are none of the model's own words.
ASSUME AlertsAssumption ==
    /\ Flags \cap {"enabled", "threshold", "cooldown"} = {}
    /\ Categories \cap (Flags \cup {"enabled", "threshold", "cooldown"}) = {}

PriceFields == {"enabled", "threshold", "cooldown"}
Fields == Flags \cup PriceFields
Settable == Fields \cup Categories
Ends == {"no", "timed", "forever"}
AlertKinds == {"root", "item", "settings", "list", "stores"}
AlertKeys == {"me", "prices", "item", "stores"}
NoStore == "none"

VARIABLES
    held,           \* the server's rows for the user
    alertCache,     \* ME_QUERY_KEY, PRICE_ALERT_SETTINGS_KEY, the item's detail, STORES_KEY
    alertScreen,    \* the screen shown
    savingSwitch,   \* the item's Alerts screen: switch states being saved
    sheet,          \* the switch the "Mute until" sheet is open for
    unmuting, unmuteFailed,     \* Settings -> Alerts: rows saving, rows that failed
    mergeSource,    \* Settings -> Stores: the store the merge sheet is open for
    sent,           \* the mutations under way
    wanted,         \* what the user last set, "any" where that is not sure to come about
    alertActs, alertFaults

alertForms == <<savingSwitch, sheet, unmuting, unmuteFailed, mergeSource>>
alertWorld == <<alertActs, alertFaults>>
alertVars == <<held, alertCache, alertScreen, alertForms, sent, wanted, alertWorld>>

Switches == {"item"} \cup Stores
NoSwitches == [k \in Switches |-> "none"]
OnOff == {"on", "off"}

AlertsTypeOK ==
    /\ held.field \in [Fields -> OnOff] /\ held.muted \subseteq Categories
    /\ held.end \in [Switches -> Ends] /\ held.into \in [Stores -> Stores] /\ held.premium \in BOOLEAN
    /\ alertScreen \in AlertKinds
    /\ savingSwitch \in [Switches -> OnOff \cup {"none"}] /\ sheet \in Switches \cup {NoStore}
    /\ unmuting \subseteq Switches /\ unmuteFailed \subseteq Switches /\ mergeSource \in Stores \cup {NoStore}
    /\ \A n \in 1 .. Len(sent) : sent[n].pc \in {"sent", "done", "failed", "refetching"}
    /\ \A k \in AlertKeys : alertCache[k].call \in {"none", "asked", "read", "failed"}
    /\ wanted \in [Settable -> OnOff \cup {"any"}]

-----------------------------------------------------------------------------
(* The server                                                               *)

\* A store's group, and a group's mute: the later of its stores' ends.
Group(s) == held.into[s]
GroupEnd(h, g) ==
    LET ends == {h.end[s] : s \in {t \in Stores : h.into[t] = g}} IN
    IF "forever" \in ends THEN "forever" ELSE IF "timed" \in ends THEN "timed" ELSE "no"

AlertTruth(h, k) ==
    CASE k = "me" -> [field |-> [f \in Flags |-> h.field[f]], muted |-> h.muted, premium |-> h.premium]
      [] k = "prices" -> [field |-> [f \in PriceFields |-> h.field[f]], item |-> h.end["item"],
                          stores |-> [s \in Stores |-> IF h.into[s] = s THEN GroupEnd(h, s) ELSE "no"]]
      [] k = "item" -> h.end["item"]
      [] OTHER -> h.into

\* mute_store, unmute_store: the whole group, recorded on its root.
SetStoreEnd(s, end) ==
    [held EXCEPT !.end = [t \in Switches |->
        IF t = Group(s) THEN end ELSE IF t \in Stores /\ Group(t) = Group(s) THEN "no" ELSE held.end[t]]]

\* A merge that leaves behind the stores merged into the source, or takes them along.
RegroupOne(s, t) == [held EXCEPT !.into[s] = Group(t)]
Regroup(s, t) == [held EXCEPT !.into = [u \in Stores |-> IF u = s \/ held.into[u] = s THEN Group(t) ELSE held.into[u]]]

\* Muting is Premium; two stores of one group do not merge.
Allowed(c) ==
    /\ c.hook \in {"muteItem", "muteStore"} /\ c.to # "no" => held.premium
    /\ c.hook = "merge" => Group(c.about) # Group(c.to)
Served(c) ==
    CASE c.hook = "muteItem" -> [held EXCEPT !.end["item"] = c.to]
      [] c.hook = "muteStore" -> SetStoreEnd(c.about, c.to)
      [] c.hook = "merge" -> Regroup(c.about, c.to)
      [] c.hook = "unmerge" -> [held EXCEPT !.into[c.about] = c.about]
      [] c.hook = "prefs" /\ c.about \in Categories -> [held EXCEPT !.muted = c.to]
      [] OTHER -> [held EXCEPT !.field = [f \in Fields |-> IF f \in DOMAIN c.to THEN c.to[f] ELSE @[f]]]

-----------------------------------------------------------------------------
(* The cache, the screens and the hooks                                     *)

AlertAct == alertActs < MaxAlertActs /\ alertActs' = alertActs + 1 /\ UNCHANGED alertFaults
AlertFault == /\ alertActs < MaxAlertActs /\ alertFaults < MaxAlertFaults
              /\ alertActs' = alertActs + 1 /\ alertFaults' = alertFaults + 1

\* The profile is shown by the root layout, whatever is over it.
AlertShows(kind) ==
    {"me"} \cup CASE kind = "item" -> {"item", "prices"} [] kind \in {"settings", "list"} -> {"prices"}
                  [] kind = "stores" -> {"stores"} [] OTHER -> {}
AlertData(k) == alertCache[k].data
HasData(k) == AlertData(k) # NoData
Stale(keys) == [k \in AlertKeys |-> IF k \in keys THEN Invalidate(alertCache[k], k \in AlertShows(alertScreen)) ELSE alertCache[k]]

\* mutate: the hook's earlier calls lose their callbacks.
Mutate(hook, about, to) ==
    sent' = Append([n \in 1 .. Len(sent) |-> [sent[n] EXCEPT !.here = @ /\ sent[n].hook # hook]],
                   [hook |-> hook, about |-> about, to |-> to, here |-> TRUE, pc |-> "sent",
                    answer |-> NoData, ok |-> FALSE, waits |-> FALSE])
UnderWay(hook, k) == \E n \in 1 .. Len(sent) : sent[n].hook = hook /\ sent[n].about = k

Go(kind) ==
    /\ alertScreen' = kind
    /\ alertCache' = [k \in AlertKeys |->
        IF kind # "root" /\ k \in AlertShows(kind) THEN Observe(alertCache[k]) ELSE alertCache[k]]
    /\ savingSwitch' = NoSwitches /\ sheet' = NoStore /\ unmuting' = {} /\ unmuteFailed' = {} /\ mergeSource' = NoStore
    /\ sent' = [n \in 1 .. Len(sent) |-> [sent[n] EXCEPT !.here = FALSE]]

OpenAlerts(kind) ==
    /\ AlertAct /\ alertScreen = "root" /\ kind # "root" /\ Go(kind)
    /\ UNCHANGED <<held, wanted>>

\* Back; or, from Settings -> Alerts, Price alerts in its place.
LeaveAlerts ==
    /\ AlertAct
    /\ \/ alertScreen # "root" /\ Go("root")
       \/ alertScreen = "settings" /\ HasData("prices") /\ Go("list")
    /\ UNCHANGED <<held, wanted>>

-----------------------------------------------------------------------------
(* An item's Alerts screen                                                  *)

ItemOffers == alertScreen = "item" /\ HasData("item") /\ sheet = NoStore
canMute == ~HasData("me") \/ AlertData("me").premium
itemOn == IF savingSwitch["item"] = "none" THEN AlertData("item") = "no" ELSE savingSwitch["item"] = "on"

Saves(key, end) ==
    /\ savingSwitch' = [savingSwitch EXCEPT ![key] = IF end = "no" THEN "on" ELSE "off"]
    /\ Mutate(IF key = "item" THEN "muteItem" ELSE "muteStore", key, end)

\* The item's switch: off mutes forever at once.
setItemAlerts ==
    /\ AlertAct /\ ItemOffers /\ savingSwitch["item"] = "none"
    /\ itemOn => canMute
    /\ Saves("item", IF itemOn THEN "forever" ELSE "no")
    /\ UNCHANGED <<held, alertCache, alertScreen, sheet, unmuting, unmuteFailed, mergeSource, wanted>>

openItemUntil ==
    /\ AlertAct /\ ItemOffers /\ ~itemOn /\ canMute
    /\ sheet' = "item"
    /\ UNCHANGED <<held, alertCache, alertScreen, savingSwitch, unmuting, unmuteFailed, mergeSource, sent, wanted>>

\* A store's switch: on unmutes it, off asks until when.
setStoreAlerts(s) ==
    /\ AlertAct /\ ItemOffers /\ HasData("prices") /\ savingSwitch[s] = "none"
    /\ LET on == s \notin DOMAIN AlertData("prices").stores \/ AlertData("prices").stores[s] = "no" IN
       \/ ~on /\ Saves(s, "no") /\ UNCHANGED sheet
       \/ on /\ canMute /\ sheet' = s /\ UNCHANGED <<savingSwitch, sent>>
    /\ UNCHANGED <<held, alertCache, alertScreen, unmuting, unmuteFailed, mergeSource, wanted>>

choose(end) ==
    /\ alertScreen = "item" /\ sheet # NoStore /\ end # "no"
    /\ Saves(sheet, end) /\ sheet' = NoStore
    /\ UNCHANGED <<held, alertCache, alertScreen, unmuting, unmuteFailed, mergeSource, wanted, alertWorld>>

onClose ==
    /\ sheet # NoStore /\ sheet' = NoStore
    /\ UNCHANGED <<held, alertCache, alertScreen, savingSwitch, unmuting, unmuteFailed, mergeSource, sent, wanted, alertWorld>>

-----------------------------------------------------------------------------
(* Settings -> Alerts, and the Price alerts list                            *)

\* A category's alerts are on unless the list of the muted ones has it.
InList(muted, c) == IF c \in muted THEN "off" ELSE "on"
Other(v) == IF v = "on" THEN "off" ELSE "on"

\* What the user set stands, unless a call for it is under way already.
Wants(hook, k, v) == wanted' = [wanted EXCEPT ![k] = IF UnderWay(hook, k) THEN "any" ELSE v]

\* ... and in the list it goes with, what the screen did not show as it was set.
WantsInList(c, muted) ==
    wanted' = [k \in Settable |->
        IF k \in Fields THEN wanted[k]
        ELSE IF \E d \in Categories : UnderWay("prefs", d) THEN "any"
        ELSE IF k = c THEN Other(InList(muted, c))
        ELSE IF wanted[k] = InList(muted, k) THEN wanted[k] ELSE "any"]

\* A body of all that the screen shows, or of the field that was changed.
EveryField(f, v, shown) == [shown EXCEPT ![f] = v]
OneField(f, v, shown) == [g \in {f} |-> v]

\* The list sent for a category, and one that leaves the others out.
OnlyThisOne(c, muted) == IF c \in muted THEN {} ELSE {c}
WholeList(c, muted) == IF c \in muted THEN muted \ {c} ELSE muted \cup {c}

setFlag(f) ==
    /\ AlertAct /\ alertScreen = "settings" /\ HasData("me")
    /\ LET shown == AlertData("me").field IN
       /\ Wants("prefs", f, Other(shown[f]))
       /\ Mutate("prefs", f, OneField(f, Other(shown[f]), shown))
    /\ UNCHANGED <<held, alertCache, alertScreen, alertForms>>

\* The whole list, from the profile as it is shown.
setCategoryAlerts(c) ==
    /\ AlertAct /\ alertScreen = "settings" /\ HasData("me")
    /\ LET muted == AlertData("me").muted IN
       WantsInList(c, muted) /\ Mutate("prefs", c, WholeList(c, muted))
    /\ UNCHANGED <<held, alertCache, alertScreen, alertForms>>

\* While the last call is under way its switch shows what it sends.
priceAlertsOn ==
    LET saves == {n \in 1 .. Len(sent) : /\ sent[n].hook = "prices" /\ sent[n].here
                                         /\ sent[n].about = "enabled"} IN
    IF saves # {} THEN \E n \in saves : sent[n].to["enabled"] = "on" ELSE AlertData("prices").field["enabled"] = "on"

PriceOffers(f) ==
    /\ HasData("prices")
    /\ \/ alertScreen = "settings" /\ f = "enabled"
       \/ alertScreen = "settings" /\ f = "threshold" /\ priceAlertsOn
       \/ alertScreen = "list" /\ f # "enabled"

savePrice(f) ==
    /\ AlertAct /\ PriceOffers(f)
    /\ LET shown == AlertData("prices").field
           v == IF f = "enabled" THEN IF priceAlertsOn THEN "off" ELSE "on" ELSE Other(shown[f]) IN
       /\ Wants("prices", f, v)
       /\ Mutate("prices", f, OneField(f, v, shown))
    /\ UNCHANGED <<held, alertCache, alertScreen, alertForms>>

RowOffers(k) ==
    /\ alertScreen = "settings" /\ HasData("prices") /\ k \notin unmuting
    /\ IF k = "item" THEN AlertData("prices").item # "no" ELSE AlertData("prices").stores[k] # "no"

startUnmute(k) ==
    /\ AlertAct /\ RowOffers(k)
    /\ unmuting' = unmuting \cup {k} /\ unmuteFailed' = unmuteFailed \ {k}
    /\ Mutate(IF k = "item" THEN "muteItem" ELSE "muteStore", k, "no")
    /\ UNCHANGED <<held, alertCache, alertScreen, savingSwitch, sheet, mergeSource, wanted>>

-----------------------------------------------------------------------------
(* Settings -> Stores                                                       *)

StoreRows == {AlertData("stores")[s] : s \in Stores}
StoresOffer == alertScreen = "stores" /\ HasData("stores")

onMerge(s) ==
    /\ StoresOffer /\ s \in StoreRows /\ Cardinality(StoreRows) > 1 /\ mergeSource = NoStore
    /\ mergeSource' = s
    /\ UNCHANGED <<held, alertCache, alertScreen, savingSwitch, sheet, unmuting, unmuteFailed, sent, wanted, alertWorld>>

onPick(t) ==
    /\ AlertAct /\ StoresOffer /\ mergeSource # NoStore /\ t \in StoreRows \ {mergeSource}
    /\ Mutate("merge", mergeSource, t) /\ mergeSource' = NoStore
    /\ UNCHANGED <<held, alertCache, alertScreen, savingSwitch, sheet, unmuting, unmuteFailed, wanted>>

CloseMerge ==
    /\ mergeSource # NoStore /\ mergeSource' = NoStore
    /\ UNCHANGED <<held, alertCache, alertScreen, savingSwitch, sheet, unmuting, unmuteFailed, sent, wanted, alertWorld>>

onUnmerge(s) ==
    /\ AlertAct /\ StoresOffer /\ AlertData("stores")[s] # s
    /\ Mutate("unmerge", s, NoStore)
    /\ UNCHANGED <<held, alertCache, alertScreen, alertForms, wanted>>

-----------------------------------------------------------------------------
(* Calls and reads                                                          *)

ServeSetting(n) ==
    /\ sent[n].pc = "sent"
    /\ IF Allowed(sent[n])
       THEN /\ held' = Served(sent[n])
            /\ sent' = [sent EXCEPT ![n].pc = "done", ![n].ok = TRUE, ![n].answer =
                            AlertTruth(held', IF sent[n].hook = "prefs" THEN "me" ELSE "prices")]
       ELSE sent' = [sent EXCEPT ![n].pc = "done"] /\ UNCHANGED held
    /\ UNCHANGED <<alertCache, alertScreen, alertForms, wanted, alertWorld>>

SettingLost(n) ==
    /\ AlertFault /\ sent[n].pc \in {"sent", "done"}
    /\ sent' = [sent EXCEPT ![n].pc = "done", ![n].ok = FALSE]
    /\ wanted' = IF sent[n].about \in DOMAIN wanted THEN [wanted EXCEPT ![sent[n].about] = "any"] ELSE wanted
    /\ UNCHANGED <<held, alertCache, alertScreen, alertForms>>

\* useUpdatePreferences, useUpdatePriceAlertSettings: the answer is the data.
SettingAnswered(n) ==
    /\ sent[n].pc = "done" /\ sent[n].hook \in {"prefs", "prices"}
    /\ LET k == IF sent[n].hook = "prefs" THEN "me" ELSE "prices" IN
       alertCache' = IF sent[n].ok THEN [alertCache EXCEPT ![k] = SetData(@, sent[n].answer)] ELSE alertCache
    /\ sent' = RemoveAt(sent, n)
    /\ UNCHANGED <<held, alertScreen, alertForms, wanted, alertWorld>>

StoresAnswered(n) ==
    /\ sent[n].pc = "done" /\ sent[n].hook \in {"merge", "unmerge"}
    /\ alertCache' = Stale({"stores", "prices", "item"})
    /\ sent' = RemoveAt(sent, n)
    /\ UNCHANGED <<held, alertScreen, alertForms, wanted, alertWorld>>

\* useMuteItem, useMuteStore: asked for again, whether saved or not, and the
\* call ends when that is read; a call that waited for an older read goes on.
MuteAnswered(n) ==
    /\ sent[n].pc = "done" /\ sent[n].hook \in {"muteItem", "muteStore"}
    /\ alertCache' = Stale(IF sent[n].hook = "muteItem" THEN {"item", "prices"} ELSE {"prices"})
    /\ sent' = [m \in 1 .. Len(sent) |-> IF m = n THEN [sent[n] EXCEPT !.pc = "refetching", !.waits = TRUE]
                                         ELSE [sent[m] EXCEPT !.waits = FALSE]]
    /\ UNCHANGED <<held, alertScreen, alertForms, wanted, alertWorld>>

\* settle, markSaving and markUnmute; or none of them after a failure.
SettledIfSaved(c) ==
    IF c.ok THEN savingSwitch' = [savingSwitch EXCEPT ![c.about] = "none"] /\ unmuting' = unmuting \ {c.about} /\ UNCHANGED unmuteFailed
    ELSE UNCHANGED <<savingSwitch, unmuting, unmuteFailed>>
Settled(c) ==
    /\ savingSwitch' = [savingSwitch EXCEPT ![c.about] = "none"] /\ unmuting' = unmuting \ {c.about}
    /\ unmuteFailed' = IF alertScreen = "settings" /\ ~c.ok THEN unmuteFailed \cup {c.about} ELSE unmuteFailed

MuteSettled(n) ==
    /\ sent[n].pc = "refetching"
    /\ sent[n].waits => \A k \in {"item", "prices"} : ~InFlight(alertCache[k])
    /\ IF sent[n].here THEN Settled(sent[n]) ELSE UNCHANGED <<savingSwitch, unmuting, unmuteFailed>>
    /\ sent' = RemoveAt(sent, n)
    /\ UNCHANGED <<held, alertCache, alertScreen, sheet, mergeSource, wanted, alertWorld>>

ServeAlertRead(k) ==
    /\ alertCache[k].call = "asked"
    /\ alertCache' = [alertCache EXCEPT ![k] = Reads(@, AlertTruth(held, k))]
    /\ UNCHANGED <<held, alertScreen, alertForms, sent, wanted, alertWorld>>

AlertReadLost(k) ==
    /\ AlertFault /\ InFlight(alertCache[k])
    /\ alertCache' = [alertCache EXCEPT ![k] = Fail(@)]
    /\ UNCHANGED <<held, alertScreen, alertForms, sent, wanted>>

AlertReadAnswered(k) ==
    /\ alertCache[k].call = "read"
    /\ alertCache' = [alertCache EXCEPT ![k] = [Arrived(@) EXCEPT !.fresh = FALSE]]
    /\ UNCHANGED <<held, alertScreen, alertForms, sent, wanted, alertWorld>>

Retry(k) ==
    /\ AlertAct /\ k = "stores" /\ alertScreen = "stores" /\ ~HasData(k)
    /\ alertCache' = [alertCache EXCEPT ![k] = Refetch(@)]
    /\ UNCHANGED <<held, alertScreen, alertForms, sent, wanted>>

Lapse ==
    /\ AlertFault /\ held.premium
    /\ held' = [held EXCEPT !.premium = FALSE]
    /\ UNCHANGED <<alertCache, alertScreen, alertForms, sent, wanted>>

-----------------------------------------------------------------------------

AlertInit ==
    /\ held \in [field : {[f \in Fields |-> "on"]}, muted : {{}}, premium : {TRUE}, into : {[s \in Stores |-> s]},
                 end : {[k \in Switches |-> "no"], [k \in Switches |-> "forever"]}]
    /\ \E recent \in BOOLEAN : alertCache = [k \in AlertKeys |->
          IF k = "me" THEN [Loaded(AlertTruth(held, k)) EXCEPT !.fresh = recent] ELSE Unloaded]
    /\ alertScreen = "root" /\ savingSwitch = NoSwitches /\ sheet = NoStore
    /\ unmuting = {} /\ unmuteFailed = {} /\ mergeSource = NoStore /\ sent = <<>>
    /\ wanted = [k \in Settable |-> "on"]
    /\ alertActs = 0 /\ alertFaults = 0

AlertNext ==
    \/ \E kind \in AlertKinds : OpenAlerts(kind)
    \/ LeaveAlerts \/ setItemAlerts \/ openItemUntil \/ onClose \/ CloseMerge \/ Lapse
    \/ \E s \in Stores : setStoreAlerts(s) \/ onMerge(s) \/ onPick(s) \/ onUnmerge(s)
    \/ \E end \in Ends : choose(end)
    \/ (\E f \in Flags : setFlag(f)) \/ (\E f \in PriceFields : savePrice(f))
    \/ \E c \in Categories : setCategoryAlerts(c)
    \/ \E k \in Switches : startUnmute(k)
    \/ \E n \in 1 .. Len(sent) : \/ ServeSetting(n) \/ SettingLost(n) \/ SettingAnswered(n)
                                 \/ StoresAnswered(n) \/ MuteAnswered(n) \/ MuteSettled(n)
    \/ \E k \in AlertKeys : ServeAlertRead(k) \/ AlertReadLost(k) \/ AlertReadAnswered(k) \/ Retry(k)

AlertSpec == AlertInit /\ [][AlertNext]_alertVars

-----------------------------------------------------------------------------
(* Properties                                                               *)

Setting(h, k) == IF k \in Categories THEN InList(h.muted, k) ELSE h.field[k]

\* Once every call is answered the server holds what the user set last in each
\* field, whatever else was being saved: a save changes its own field only
\* (notification-settings.tsx, price-alerts.tsx, update_me, update_settings).  So
\* it is with each category's alerts, which are sent as a whole list, but for two
\* excepted cases: a list sent while another is under way, and a category the
\* screen did not show as it was set when the list was sent for another.
FieldsAsSet ==
    sent = <<>> => \A k \in Settable : wanted[k] # "any" => Setting(held, k) = wanted[k]

\* A store's group is never itself merged away, whatever merges and unmerges
\* there were (store_service.py merge: "groups stay one deep").
StoreGroupsOneDeep == \A s \in Stores : Group(Group(s)) = Group(s)

=============================================================================
