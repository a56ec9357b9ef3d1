---------------------------- MODULE NetwizDevices ---------------------------
(***************************************************************************)
(* The device manager of the network wizard (netwiz_dev.js): the list of   *)
(* devices and its filters, static addresses one by one and in batches     *)
(* with four strategies, groups with address pools, the DMZ host (nd); the *)
(* queue of IPv6 keep-alive calls (nk); the one dialog element all         *)
(* operations share (nx).                                                  *)
(*                                                                         *)
(* An address is its last part, a number; 0 is an unknown address and      *)
(* Foreign one of another subnet.  The router's bind, unbind and fw_set    *)
(* calls are taken from its rpcd script.                                   *)
(***************************************************************************)
EXTENDS Integers, Sequences, FiniteSets, SequencesExt

CONSTANTS
    DevMacs,        \* the devices
    SystemMacs,     \* those that are the gateway or a visitor: never selectable
    Neighbourhoods, \* initial situations: function from devices to [ip, bound]
    DevType,        \* what the name of a device says it is
    SmartZone,      \* first and last address of every type of device
    TypedSuffixes,  \* addresses the user may type
    GroupNames,     \* names of groups
    TopSuffix,      \* 254: last address of the subnet
    KeepFirst,      \* 50: first address handed out when a device cannot keep its own
    KeepLast,       \* 250: last such address
    PoolSize,       \* 30: addresses of a new group
    MaxDevSteps,    \* bound on the user's operations
    MAX_CONCURRENT, \* 10: keep-alive calls at once
    MaxHeartbeats,  \* bound on keep-alive calls
    MaxDialogs      \* bound on the dialogs opened

VARIABLES nd, nk, nx

Foreign == 900
Strategies == {"keep", "seq", "smart", "dept"}
DeviceTypes == {"mobile", "pc", "iot", "type_other"}

ASSUME NetwizDevicesAssumption ==
    /\ SystemMacs \subseteq DevMacs
    /\ DevType \in [DevMacs -> DeviceTypes]
    /\ SmartZone \in [DeviceTypes -> (2..TopSuffix) \X (2..TopSuffix)]
    /\ {TopSuffix, KeepFirst, KeepLast, PoolSize, MaxDevSteps, MaxHeartbeats, MaxDialogs} \subseteq Nat
    /\ MAX_CONCURRENT \in Nat \ {0}

InSubnet(a) == a \notin {0, Foreign}

(* The address a device has or is bound to.                                *)
ExistingIp(d) == IF d.bound # 0 THEN d.bound ELSE d.ip

-----------------------------------------------------------------------------
(* Address pools.                                                          *)

LeastOf(S) == CHOOSE i \in S : \A j \in S : i <= j

GetAvailableIpInRange(s, e, used) ==
    LET free == (s..e) \ used IN IF free = {} THEN 0 ELSE LeastOf(free)

GetNextAvailableIp(a, used) == LeastOf((a..(a + Cardinality(used))) \ used)

Available(s, e, used) == Cardinality((s..e) \ used)

(* The four smart zones pushed behind one another.                         *)
CascadeStep(acc, zone) ==
    LET s0 == IF zone[1] <= acc.end THEN acc.end + 1 ELSE zone[1]
        e0 == IF zone[2] < s0 THEN s0 + 10 ELSE zone[2]
        e == IF e0 > TopSuffix THEN TopSuffix ELSE e0
        s == IF s0 > TopSuffix THEN TopSuffix - 1 ELSE s0
    IN  [end |-> e, zones |-> Append(acc.zones, <<s, e>>)]

AutoCascadeRanges(zones) == FoldLeft(CascadeStep, [end |-> 1, zones |-> <<>>], zones).zones

(* As long as the zones do not run into the end of the subnet, the cascade *)
(* leaves them non-empty and disjoint, whatever was typed (lines 668-684). *)
ASSUME CascadeSeparates ==
    \A z \in [1..3 -> {2, 5, 20, TopSuffix} \X {2, 7, 21}] :
        LET c == AutoCascadeRanges(z)
        IN  (\A i \in 1..2 : c[i][2] < TopSuffix) =>
            \A i \in 1..3 : c[i][1] <= c[i][2] /\ \A j \in 1..(i - 1) : c[j][2] < c[i][1]

-----------------------------------------------------------------------------
(* Groups: a device refers to a group by its position.                     *)

GetDeviceDept(groups, d) == IF d.dept \in 1..Len(groups) THEN d.dept ELSE 0

(* What the two fields of a row become when they lose the focus.           *)
EnforceLimits(s, e) ==
    LET clamp(v) == IF v < 2 THEN 2 ELSE IF v > TopSuffix THEN TopSuffix ELSE v
    IN  <<clamp(s), IF clamp(s) > clamp(e) THEN clamp(s) ELSE clamp(e)>>

ASSUME LimitsAreValid ==
    \A s, e \in {0, 2, 7, TopSuffix, TopSuffix + 3} :
        LET r == EnforceLimits(s, e) IN 2 <= r[1] /\ r[1] <= r[2] /\ r[2] <= TopSuffix

(* A new row comes first and starts behind every other one.                *)
AddGroup(rows, name) ==
    LET ends == {rows[i].last : i \in DOMAIN rows} \cup {KeepFirst - 1}
        start == (CHOOSE m \in ends : \A n \in ends : n <= m) + 1
    IN  IF start > TopSuffix THEN {}
        ELSE {<<[name |-> name, first |-> start,
                 last |-> IF start + PoolSize > TopSuffix THEN TopSuffix ELSE start + PoolSize]>> \o rows}

SaveDepartmentsFromDOM(rows) ==
    /\ \A i \in DOMAIN rows : 2 <= rows[i].first /\ rows[i].first <= rows[i].last /\ rows[i].last <= TopSuffix
    /\ \A i, j \in DOMAIN rows : i < j =>
          /\ rows[i].name # rows[j].name
          /\ rows[i].last < rows[j].first \/ rows[j].last < rows[i].first

EditedGroups(rows) ==
    UNION {AddGroup(rows, n) : n \in GroupNames} \cup {RemoveAt(rows, i) : i \in DOMAIN rows}

-----------------------------------------------------------------------------
(* The router: host sections of the DHCP server and the DMZ redirect.      *)

(* The script looks for sections by text: an address is found in every     *)
(* address it is the beginning of.                                         *)
TextMatches(a, b) == a = b \/ (InSubnet(a) /\ InSubnet(b) /\ (b \div 10 = a \/ b \div 100 = a))

RouterBind(hosts, c) ==
    IF c.ip = 0 THEN hosts
    ELSE {h \in hosts : h.mac # c.mac /\ ~TextMatches(c.ip, h.ip)}
         \cup {[mac |-> c.mac, ip |-> c.ip, dept |-> c.dept]}

RouterUnbind(hosts, c) == {h \in hosts : h.mac # c.mac}

BoundIp(hosts, m) ==
    IF \E h \in hosts : h.mac = m THEN (CHOOSE h \in hosts : h.mac = m).ip ELSE 0

HostDept(hosts, m) ==
    IF \E h \in hosts : h.mac = m THEN (CHOOSE h \in hosts : h.mac = m).dept ELSE 0

DeviceListing ==
    [m \in DevMacs |-> [mac |-> m, ip |-> nd.live[m], bound |-> BoundIp(nd.hosts, m),
                        dept |-> HostDept(nd.hosts, m), dmz |-> \E z \in nd.dmz : z.mac = m]]

-----------------------------------------------------------------------------
(* The list: filters and selection.                                        *)

IsSelectable(d) ==
    /\ d.mac \notin SystemMacs
    /\ ~(d.ip = Foreign /\ d.bound = 0)

SmartCategory(d, byIp) ==
    IF ~byIp THEN DevType[d.mac]
    ELSE LET a == ExistingIp(d)
             in(t) == InSubnet(a) /\ SmartZone[t][1] <= a /\ a <= SmartZone[t][2]
         IN  IF in("mobile") THEN "mobile" ELSE IF in("pc") THEN "pc"
             ELSE IF in("iot") THEN "iot" ELSE "type_other"

InFilter(d, groups, byIp, filter) ==
    CASE filter = <<"all">> -> TRUE
      [] filter = <<"dept_other">> -> GetDeviceDept(groups, d) = 0
      [] filter[1] = "dept" -> GetDeviceDept(groups, d) = filter[2]
      [] OTHER -> SmartCategory(d, byIp) = filter[2]

FilterAndRender(s) == {m \in DevMacs : InFilter(s.list[m], s.groups, s.byIp, s.filter)}

(* A category that has become empty gives way to the whole list.           *)
UpdateTabsAndFilter(s) == IF FilterAndRender(s) = {} THEN [s EXCEPT !.filter = <<"all">>] ELSE s

DeviceWeight(d) == IF d.bound # 0 THEN 70 ELSE IF d.ip # 0 THEN 60 ELSE 50

ListOrder(s, S) ==
    SetToSortSeq(S, LAMBDA m, n :
        LET a == s.list[m] b == s.list[n]
        IN  \/ DeviceWeight(a) > DeviceWeight(b)
            \/ DeviceWeight(a) = DeviceWeight(b) /\ a.ip < b.ip)

-----------------------------------------------------------------------------
(* Strategies.                                                             *)

(* A slip: addresses bound to devices that use another one are free.       *)
ForgetsBound(list, S) == {list[m].ip : m \in S} \ {0}

UsedIps(list, S) == UNION {{list[m].ip, list[m].bound} : m \in S} \ {0}

GroupZone(s, k) == <<s.groups[k].first, s.groups[k].last>>

(* What the dialog of one device suggests; 0 is an empty field.            *)
SuggestSingle(s, m, strategy, group) ==
    LET used == UsedIps(s.list, DevMacs \ {m})
        zone == SmartZone[DevType[m]]
    IN  CASE strategy = "keep" -> ExistingIp(s.list[m])
          [] strategy = "smart" -> GetAvailableIpInRange(zone[1], zone[2], used)
          [] strategy = "dept" -> IF group = 0 THEN 0
                                  ELSE GetAvailableIpInRange(GroupZone(s, group)[1], GroupZone(s, group)[2], used)
          [] strategy = "seq" -> GetNextAvailableIp(IF InSubnet(s.last) THEN s.last ELSE KeepFirst, used)

(* Whether the batch has enough addresses, counted before anything is      *)
(* assigned.                                                               *)
EnoughFor(s, strategy, group, suffix, used) ==
    CASE strategy = "seq" -> Len(s.sel) <= Available(suffix, TopSuffix, used)
      [] strategy = "smart" ->
             \A t \in DeviceTypes :
                LET need == Cardinality({i \in DOMAIN s.sel : DevType[s.sel[i]] = t})
                IN  need > 0 => need <= Available(SmartZone[t][1], SmartZone[t][2], used)
      [] strategy = "dept" -> Len(s.sel) <= Available(GroupZone(s, group)[1], GroupZone(s, group)[2], used)
      [] OTHER -> TRUE

(* Consecutive assignment reserves the seats of devices that already sit   *)
(* behind the first address.                                               *)
ReserveSeats(s, suffix, used) ==
    FoldLeft(LAMBDA acc, m :
                LET a == ExistingIp(s.list[m])
                IN  IF InSubnet(a) /\ a >= suffix /\ a \notin acc.used
                    THEN [used |-> acc.used \cup {a}, seats |-> acc.seats \cup {m}] ELSE acc,
             [used |-> used, seats |-> {}], s.sel)

AssignIp(s, strategy, group, acc, m) ==
    LET own == ExistingIp(s.list[m])
        zone == IF strategy = "smart" THEN SmartZone[DevType[m]] ELSE GroupZone(s, group)
        pooled == GetAvailableIpInRange(zone[1], zone[2], acc.used)
    IN  CASE strategy = "keep" ->
               IF InSubnet(own) /\ own \notin acc.used THEN own
               ELSE GetAvailableIpInRange(KeepFirst, KeepLast, acc.used)
          [] strategy = "seq" ->
               IF m \in acc.seats THEN own ELSE GetNextAvailableIp(acc.at, acc.used)
          [] OTHER ->
               IF zone[1] <= own /\ own <= zone[2] /\ own \notin acc.used THEN own
               ELSE IF pooled # 0 THEN pooled ELSE own

(* One device of the batch: its address is taken out of the pool, and a    *)
(* call is planned unless nothing would change.                            *)
PlanDevice(s, strategy, group, acc, m) ==
    LET d == s.list[m]
        a == AssignIp(s, strategy, group, acc, m)
        dept == IF group = -1 THEN d.dept ELSE group
        same == d.bound # 0 /\ a = d.bound /\ dept = d.dept
    IN  [acc EXCEPT !.used = @ \cup {a},
                    !.at = IF strategy = "seq" /\ m \notin acc.seats THEN a ELSE @,
                    !.calls = IF same THEN @
                              ELSE @ \cup {[kind |-> "bind", mac |-> m, ip |-> a, dept |-> dept]}]

PlanBatch(s, strategy, group, suffix) ==
    LET used == UsedIps(s.list, DevMacs \ Range(s.sel))
        seats == IF strategy = "seq" THEN ReserveSeats(s, suffix, used) ELSE [used |-> used, seats |-> {}]
        plan(acc, m) == PlanDevice(s, strategy, group, acc, m)
    IN  IF ~EnoughFor(s, strategy, group, suffix, used) THEN {}
        ELSE FoldLeft(plan, [used |-> seats.used, seats |-> seats.seats, at |-> suffix, calls |-> {}], s.sel).calls

-----------------------------------------------------------------------------
(* Operations.  page: "loading" while the list is fetched, "list" when it  *)
(* is shown, "dialog" with the batch dialog over it, "writing" while calls *)
(* are answered.                                                           *)

DevicesInit ==
    \E h \in Neighbourhoods :
        nd = [live |-> [m \in DevMacs |-> h[m].ip],
              hosts |-> {[mac |-> m, ip |-> h[m].bound, dept |-> 0] : m \in {n \in DevMacs : h[n].bound # 0}},
              groups |-> <<>>, dmz |-> {}, last |-> 0, byIp |-> TRUE, filter |-> <<"all">>,
              list |-> [m \in DevMacs |-> [mac |-> m, ip |-> 0, bound |-> 0, dept |-> 0, dmz |-> FALSE]],
              sel |-> <<>>, page |-> "loading", calls |-> {}, steps |-> 0]

MayDevStep == nd.steps < MaxDevSteps

LoadDevices ==
    /\ nd.page \in {"loading", "failed"}
    /\ \/ nd' = UpdateTabsAndFilter([nd EXCEPT !.page = "list", !.list = DeviceListing, !.sel = <<>>])
       \/ nd.page = "loading" /\ nd' = [nd EXCEPT !.page = "failed", !.sel = <<>>]
ReloadBehindDialog ==
    /\ nd.page = "dialog" /\ nd.sel = <<>>
    /\ nd' = UpdateTabsAndFilter([nd EXCEPT !.list = DeviceListing])

(* The refresh button, the checkbox for connections and its expiry, which  *)
(* strikes with the batch dialog open too: nothing is selected any more,   *)
(* and the new list comes behind it.  Left out: an expiry in the seconds   *)
(* of loading and writing, and a list that comes after the dialog.         *)
RefreshDevices ==
    /\ nd.page \in {"list", "dialog"} /\ MayDevStep
    /\ nd' = [nd EXCEPT !.page = IF @ = "dialog" THEN "dialog" ELSE "loading", !.sel = <<>>,
                        !.steps = @ + 1]

ToggleSelection(m) ==
    /\ nd.page = "list" /\ m \in FilterAndRender(nd)
    /\ \/ m \in Range(nd.sel) /\ nd' = [nd EXCEPT !.sel = SelectSeq(@, LAMBDA n : n # m)]
       \/ m \notin Range(nd.sel) /\ IsSelectable(nd.list[m]) /\ nd' = [nd EXCEPT !.sel = Append(@, m)]

SelectAll ==
    /\ nd.page = "list"
    /\ nd' = [nd EXCEPT !.sel = ListOrder(nd, {m \in FilterAndRender(nd) : IsSelectable(nd.list[m])})]

ChooseFilter ==
    /\ nd.page = "list" /\ MayDevStep
    /\ \/ \E f \in {<<"all">>, <<"dept_other">>} \cup {<<"type", t>> : t \in DeviceTypes}
                   \cup {<<"dept", k>> : k \in DOMAIN nd.groups} :
             /\ \E m \in DevMacs : InFilter(nd.list[m], nd.groups, nd.byIp, f)
             /\ nd' = [nd EXCEPT !.filter = f, !.sel = <<>>, !.steps = @ + 1]
       \/ nd' = UpdateTabsAndFilter([nd EXCEPT !.byIp = ~@, !.sel = <<>>, !.steps = @ + 1])

OpenBatchBind ==
    /\ nd.page = "list" /\ Len(nd.sel) >= 2
    /\ nd' = [nd EXCEPT !.page = "dialog"]

(* The start of the batch.  Group -1 keeps the group of every device; a    *)
(* group pool needs a group.  Too few addresses, or nothing to change,     *)
(* close the dialog with a message.                                        *)
ConfirmBatchBind ==
    /\ nd.page = "dialog" /\ MayDevStep
    /\ \E strategy \in Strategies, group \in -1..Len(nd.groups), suffix \in TypedSuffixes :
          /\ strategy = "dept" => group > 0
          /\ LET calls == PlanBatch(nd, strategy, group, suffix)
             IN  nd' = [nd EXCEPT !.steps = @ + 1,
                                  !.page = IF calls = {} THEN "list" ELSE "writing",
                                  !.calls = calls,
                                  !.last = IF calls = {} THEN @ ELSE (CHOOSE c \in calls : TRUE).ip]

BatchUnbind ==
    /\ nd.page = "list" /\ Len(nd.sel) >= 2 /\ MayDevStep
    /\ LET bound == {m \in Range(nd.sel) : nd.list[m].bound # 0}
       IN  /\ bound # {}
           /\ nd' = [nd EXCEPT !.page = "writing", !.steps = @ + 1,
                               !.calls = {[kind |-> "unbind", mac |-> m, ip |-> 0, dept |-> 0] : m \in bound}]

(* The checks of the OK button in the dialog of one device.                *)
SingleAccepted(s, m, strategy, group, a) ==
    /\ strategy = "dept" => group # 0
    /\ a # 0
    /\ \A n \in DevMacs \ {m} : a \notin {s.list[n].ip, s.list[n].bound}
    /\ ~(s.list[m].bound # 0 /\ a = s.list[m].bound /\ group = s.list[m].dept)

SubmitSingle(m) ==
    /\ nd.page = "list" /\ MayDevStep /\ m \notin SystemMacs
    /\ nd.list[m].bound # 0 \/ IsSelectable(nd.list[m])
    /\ \E group \in 0..Len(nd.groups), strategy \in Strategies :
          /\ strategy = "keep" => InSubnet(ExistingIp(nd.list[m]))
          /\ \E a \in {SuggestSingle(nd, m, strategy, group)} \cup TypedSuffixes :
                /\ SingleAccepted(nd, m, strategy, group, a)
                /\ nd' = [nd EXCEPT !.page = "writing", !.steps = @ + 1, !.last = a,
                                    !.calls = {[kind |-> "bind", mac |-> m, ip |-> a, dept |-> group]}]

UnbindSingle(m) ==
    /\ nd.page = "list" /\ nd.list[m].bound # 0 /\ m \notin SystemMacs /\ MayDevStep
    /\ nd' = [nd EXCEPT !.page = "writing", !.steps = @ + 1,
                        !.calls = {[kind |-> "unbind", mac |-> m, ip |-> 0, dept |-> 0]}]

(* Every call of the batch is answered or fails by itself (the pool of ten *)
(* goes on either way); unbinding removes the device's DMZ redirect too.   *)
CallAnswered ==
    \E c \in nd.calls :
        \/ nd' = [nd EXCEPT !.calls = @ \ {c},
                            !.hosts = IF c.kind = "bind" THEN RouterBind(@, c) ELSE RouterUnbind(@, c),
                            !.dmz = IF c.kind = "unbind" THEN {z \in @ : z.mac # c.mac} ELSE @]
        \/ nd' = [nd EXCEPT !.calls = @ \ {c}]

RunWithConcurrency ==
    \/ nd.page = "writing" /\ nd.calls # {} /\ CallAnswered
    \/ nd.page = "writing" /\ nd.calls = {} /\ nd' = [nd EXCEPT !.page = "loading"]

SaveGroups ==
    /\ nd.page = "list" /\ MayDevStep
    /\ \E rows \in EditedGroups(nd.groups) :
          /\ SaveDepartmentsFromDOM(rows)
          /\ nd' = [nd EXCEPT !.groups = rows, !.page = "loading", !.steps = @ + 1]

(* The switch of the DMZ in the panel of a device: the page refuses a      *)
(* second host and a device without address, the router a second host.     *)
SetDmz(m) ==
    /\ nd.page = "list" /\ m \notin SystemMacs /\ MayDevStep
    /\ nd.list[m].dmz \/ (ExistingIp(nd.list[m]) # 0 /\ \A n \in DevMacs : ~nd.list[n].dmz)
    /\ nd' = [nd EXCEPT !.page = "loading", !.steps = @ + 1,
                        !.dmz = IF nd.list[m].dmz THEN {z \in @ : z.mac # m}
                                ELSE IF @ # {} THEN @ ELSE {[mac |-> m, ip |-> ExistingIp(nd.list[m])]}]

(* The button that clears every static address, group and rule.            *)
ResetDevices ==
    /\ nd.page = "list" /\ MayDevStep
    /\ nd' = [nd EXCEPT !.page = "loading", !.steps = @ + 1, !.hosts = {}, !.groups = <<>>, !.dmz = {}]

(* A device asks for its address again.                                    *)
DeviceRenews(m) ==
    /\ BoundIp(nd.hosts, m) \notin {0, nd.live[m]}
    /\ nd' = [nd EXCEPT !.live[m] = BoundIp(nd.hosts, m)]

DevicesNext ==
    \/ LoadDevices \/ ReloadBehindDialog \/ RefreshDevices \/ SelectAll \/ ChooseFilter
    \/ OpenBatchBind \/ ConfirmBatchBind \/ BatchUnbind \/ RunWithConcurrency
    \/ SaveGroups \/ ResetDevices
    \/ \E m \in DevMacs : \/ ToggleSelection(m) \/ SubmitSingle(m) \/ UnbindSingle(m)
                          \/ SetDmz(m) \/ DeviceRenews(m)

(* The calls a batch plans give different addresses to different devices,  *)
(* and none that the list showed with a device outside the batch.          *)
BatchPlanIsFree ==
    nd.page = "writing" =>
        \A c \in {k \in nd.calls : k.kind = "bind" /\ k.ip # 0} :
            /\ \A k \in nd.calls : k.ip = c.ip => k = c
            /\ \A m \in DevMacs : c.ip \in {nd.list[m].ip, nd.list[m].bound} =>
                                    m = c.mac \/ m \in Range(nd.sel)

(* "Forward all WAN ports to this device": the DMZ redirect leads to no    *)
(* address that is bound to another device.                                *)
DmzPointsAtDevice ==
    \A z \in nd.dmz, h \in nd.hosts : z.ip = h.ip => z.mac = h.mac

-----------------------------------------------------------------------------
(* Keep-alive calls: one per device and name, at most MAX_CONCURRENT at a  *)
(* time, and a slot is free again only 200 ms after its answer.            *)

KeepAliveInit ==
    nk = [queue |-> <<>>, active |-> 0, calls |-> {}, cooling |-> 0, sent |-> {}, count |-> 0]

ProcessKeepAliveQueue(s) ==
    LET free == MAX_CONCURRENT - s.active
        n == IF Len(s.queue) < free THEN Len(s.queue) ELSE free
    IN  [s EXCEPT !.active = @ + n, !.calls = @ \cup Range(SubSeq(s.queue, 1, n)),
                  !.queue = SubSeq(s.queue, n + 1, Len(s.queue))]

(* Rendering a card with a public address.  The refresh button forgets     *)
(* what was sent, so a device may be queued while its call is under way.   *)
TriggerKeepAlive(m) ==
    /\ nk.count < MaxHeartbeats
    /\ m \notin nk.sent /\ \A q \in Range(nk.queue) : q.mac # m
    /\ nk' = ProcessKeepAliveQueue([nk EXCEPT !.sent = @ \cup {m}, !.count = @ + 1,
                                              !.queue = Append(@, [mac |-> m, id |-> nk.count])])

ForgetHeartbeats == nk.sent # {} /\ nk.count < MaxHeartbeats /\ nk' = [nk EXCEPT !.sent = {}]

KeepAliveAnswered ==
    \E c \in nk.calls, ok \in BOOLEAN :
        nk' = [nk EXCEPT !.calls = @ \ {c}, !.cooling = @ + 1, !.sent = IF ok THEN @ ELSE @ \ {c.mac}]

(* A slip: the queue is looked at only when the call is answered.          *)
ForgetsQueue ==
    /\ nk.cooling > 0
    /\ nk' = [nk EXCEPT !.cooling = @ - 1, !.active = @ - 1]

SlotCools ==
    /\ nk.cooling > 0
    /\ nk' = ProcessKeepAliveQueue([nk EXCEPT !.cooling = @ - 1, !.active = @ - 1])

KeepAliveNext ==
    ForgetHeartbeats \/ KeepAliveAnswered \/ SlotCools \/ \E m \in DevMacs : TriggerKeepAlive(m)

(* The slots are exactly the calls under way and those cooling down, there *)
(* are never more than allowed, and a device waits only while none is free.*)
KeepAliveFlows ==
    /\ nk.active = Cardinality(nk.calls) + nk.cooling /\ nk.active <= MAX_CONCURRENT
    /\ nk.queue # <<>> => nk.active = MAX_CONCURRENT

-----------------------------------------------------------------------------
(* The dialog.  open is the dialog on screen, text the one its body was    *)
(* written for, waits the calls whose answer will write to it.             *)

DialogInit == nx = [open |-> "none", text |-> "none", waits |-> {}, restoring |-> FALSE, count |-> 0]

OpenModal(s, kind) == [s EXCEPT !.open = kind, !.text = kind]

(* A card's connections, and a question about a device or its panel.       *)
ShowConns(s) == [OpenModal(s, "conns") EXCEPT !.waits = @ \cup {"conns"}]

(* The buttons of the panel that save and restore the configuration.       *)
ExportConfig(s) == [OpenModal(s, "export") EXCEPT !.waits = @ \cup {"export"}]

ListBackups(s) == [OpenModal(s, "backups") EXCEPT !.waits = @ \cup {"backups"}]

(* A backup on the router is confirmed, one from the computer first looked *)
(* at for its size.                                                        *)
ConfirmAndRestore(s) == OpenModal(s, "confirm")

UploadBackup(s, large) == OpenModal(s, IF large THEN "too large" ELSE "confirm upload")

DialogOpened ==
    /\ nx.count < MaxDialogs /\ ~nx.restoring
    /\ LET at == [nx EXCEPT !.count = @ + 1]
       IN  \/ nx.open = "none" /\ nx' = ShowConns(at)
           \/ nx.open = "none" /\ \E k \in {"unbind", "panel"} : nx' = OpenModal(at, k)
           \/ nx.open = "panel" /\ nx' = ExportConfig(at)
           \/ nx.open = "panel" /\ nx' = ListBackups(at)
           \/ nx.open = "restore" /\ nx' = ConfirmAndRestore(at)
           \/ nx.open = "restore" /\ \E large \in BOOLEAN : nx' = UploadBackup(at, large)

(* The analysis of connections writes its result into whatever dialog is   *)
(* open; the other answers open a dialog of their own.                     *)
DialogAnswered(k) ==
    /\ k \in nx.waits
    /\ LET at == [nx EXCEPT !.waits = @ \ {k}]
       IN  \/ k = "conns" /\ nx' = [at EXCEPT !.text = IF nx.open = "none" THEN @ ELSE "conns"]
           \/ k = "export" /\ \E r \in {"exported", "export failed"} : nx' = OpenModal(at, r)
           \/ k = "backups" /\ \E r \in {"restore", "read failed"} : nx' = OpenModal(at, r)
           \/ k = "upload" /\ nx' = OpenModal([at EXCEPT !.restoring = FALSE], "restore failed")
           \/ k \in {"upload", "import"} /\ nx' = [at EXCEPT !.open = "none"]

(* OK runs the dialog's handler and closes the overlay, the progress       *)
(* dialog the handler of an upload has just opened included.               *)
DialogOk ==
    /\ nx.open # "none"
    /\ nx' = CASE nx.open = "confirm" -> [nx EXCEPT !.open = "none", !.restoring = TRUE, !.waits = @ \cup {"import"}]
               [] nx.open = "confirm upload" ->
                    [OpenModal(nx, "progress") EXCEPT !.open = "none", !.restoring = TRUE, !.waits = @ \cup {"upload"}]
               [] OTHER -> [nx EXCEPT !.open = "none"]

DialogNext ==
    DialogOpened \/ DialogOk \/ \E k \in nx.waits : DialogAnswered(k)

=============================================================================
