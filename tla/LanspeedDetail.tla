--------------------------- MODULE LanspeedDetail ---------------------------
(***************************************************************************)
(* The page of one client of lanspeed (clientDetailView.js): it loads the  *)
(* client's connections again and again, edits the client's host name in   *)
(* /etc/config/dhcp (dhcpHostnames.js), and looks up where the remote      *)
(* addresses of the page of the table are (geoLocation.js).                *)
(*                                                                         *)
(* ld is the page's controller: the timer, the request under way, the      *)
(* addresses of the rows it shows and the host name dialog; the numbers    *)
(* and the error line of a sample are left out.                            *)
(*                                                                         *)
(* geo is the resolver: the cache in the order of its keys, the lookups    *)
(* waiting and under way, the one batch of the page, the addresses shown   *)
(* as being looked up, and what the browser stored.                        *)
(* Addresses of one /16 share a cache key.                                 *)
(***************************************************************************)
EXTENDS Integers, Sequences, FiniteSets, TLC

CONSTANTS DetailIps, KeyOf, DetailPagesOf, MaxNames, MaxDetailClicks, GeoTimes,
          MAX_CACHE_ENTRIES, MAX_CONCURRENCY, GeoSources,
          POSITIVE_TTL, NEGATIVE_TTL

ASSUME DetailAssumption ==
  /\ DetailPagesOf \subseteq SUBSET DetailIps
  /\ \A ips \in DetailPagesOf :                (* a page fits in the cache *)
       Cardinality({KeyOf[ip] : ip \in ips}) <= MAX_CACHE_ENTRIES
  /\ MAX_CONCURRENCY \in Nat \ {0} /\ GeoSources \in Nat \ {0}
  /\ 0 < NEGATIVE_TTL /\ NEGATIVE_TTL <= POSITIVE_TTL

VARIABLES ld, geo

GeoKeys == {KeyOf[ip] : ip \in DetailIps}

----------------------------------------------------------------------------
(* Addresses that are never sent to a service on the Internet.  IPv4 is    *)
(* four bytes, IPv6 eight words.                                           *)
ClassifyIpv4(b) ==
  CASE \/ b[1] \in {10, 127}
       \/ b[1] = 100 /\ b[2] \in 64..127
       \/ b[1] = 169 /\ b[2] = 254
       \/ b[1] = 172 /\ b[2] \in 16..31
       \/ b[1] = 192 /\ b[2] = 168 -> "local"
    [] b[1] = 198 /\ b[2] \in {18, 19} -> "fake"
    [] \/ b[1] = 0 \/ b[1] >= 224
       \/ <<b[1], b[2], b[3]>> \in {<<192, 0, 0>>, <<192, 0, 2>>, <<192, 88, 99>>,
                                    <<198, 51, 100>>, <<203, 0, 113>>} -> "reserved"
    [] OTHER -> "public"

AllZero(w, end) == \A i \in 1..end : w[i] = 0
(* 0xfc00/7 and 0xfe80/10 are local; 0xff00/8, 0xfec0/10, 0x2001:db8,      *)
(* 0x2001:2, 0x2001:10-2f and 0x3fff:0/20 are reserved; 0x2000/3 is public *)
ClassifyIpv6(w) ==
  CASE AllZero(w, 7) /\ w[8] = 1 -> "local"
    [] AllZero(w, 8) -> "reserved"
    [] AllZero(w, 5) /\ w[6] = 65535 ->
         ClassifyIpv4(<<w[7] \div 256, w[7] % 256, w[8] \div 256, w[8] % 256>>)
    [] w[1] \in 64512..65023 \/ w[1] \in 65152..65215 -> "local"
    [] \/ w[1] >= 65280 \/ w[1] \in 65216..65279
       \/ w[1] = 8193 /\ (w[2] \in {3512, 2} \/ w[2] \in 16..47)
       \/ w[1] = 16383 /\ w[2] < 4096 -> "reserved"
    [] w[1] \in 8192..16383 -> "public"
    [] OTHER -> "reserved"
GeoQueryable(class) == class = "public"

(* An IPv4 address and the IPv6 address that carries it are of one class,  *)
(* and no address of a private range is queried (geoLocation.js:104-209).  *)
ASSUME MappedAgree ==
  \A a \in {0, 10, 100, 127, 169, 172, 192, 198, 223, 224}, b \in {0, 15, 16, 63, 64, 127, 168, 254} :
    /\ ClassifyIpv6(<<0, 0, 0, 0, 0, 65535, 256 * a + b, 0>>) = ClassifyIpv4(<<a, b, 0, 0>>)
    /\ (a \in {10, 127} \/ <<a, b>> \in {<<192, 168>>, <<172, 16>>})
         => ~GeoQueryable(ClassifyIpv4(<<a, b, 0, 0>>))

(* The services name the same facts in different fields: the first of the  *)
(* names that is present counts                                            *)
FirstNamed(p, names) ==
  LET there == {i \in DOMAIN names : names[i] \in DOMAIN p /\ p[names[i]] # ""}
  IN IF there = {} THEN "" ELSE p[names[CHOOSE i \in there : \A j \in there : i <= j]]
SpecialRegions == [hk |-> "HK", tw |-> "TW", mo |-> "MO"]   (* their names in any form *)
CountryFields(p, codes) ==
  LET raw == FirstNamed(p, <<"location.country_code", "location.countryCode", "location.country_a2",
                             "as.country", "country_code", "countryCode", "country_a2">>)
      country == FirstNamed(p, <<"location.country", "location.country_name", "location.countryName",
                                 "country", "country_name", "countryName">>)
      code == IF country \in DOMAIN SpecialRegions THEN SpecialRegions[country] ELSE raw
  IN [code |-> IF code \in codes THEN code ELSE IF country \in codes THEN country ELSE "",
      country |-> country,
      regionCode |-> FirstNamed(p, <<"location.region_code", "location.regionCode",
        "location.subdivision_code", "region_code", "regionCode", "subdivision_code",
        "state_prov_code", "stateProvCode">>),
      region |-> FirstNamed(p, <<"location.region", "location.region_name", "location.regionName",
        "location.subdivision", "region", "region_name", "regionName", "subdivision",
        "state_prov", "stateProv", "state">>)]
(* provinces: the code of each, and the names under which it is known      *)
ChinaProvince(regionCode, region, provinces) ==
  IF regionCode \in DOMAIN provinces THEN regionCode
  ELSE LET named == {c \in DOMAIN provinces : region \in provinces[c]}
       IN IF region = "" \/ named = {} THEN "" ELSE CHOOSE c \in named : TRUE
CountryResult(f, displayNames, provinces) ==
  LET named == IF f.code = "TW" THEN "CN-TW"
               ELSE IF f.code \in DOMAIN displayNames THEN displayNames[f.code]
               ELSE IF f.country # "" THEN f.country ELSE f.code
      province == IF f.code = "CN" THEN ChinaProvince(f.regionCode, f.region, provinces) ELSE ""
  IN IF province # "" THEN <<"CN", province>> ELSE IF named = "" THEN "unknown" ELSE named
(* Two services that name one place in different fields lead to one label; *)
(* a code that is not one of a country never becomes a label on its own,   *)
(* and the regions of their own are not shown as provinces.                *)
ASSUME SameLabel ==
  LET codes == {"CN", "HK", "TW", "US"}
      names == [CN |-> "China", HK |-> "Hong Kong", US |-> "United States"]
      provinces == [BJ |-> {"beijing"}, SH |-> {"shanghai"}]
      Label(p) == CountryResult(CountryFields(p, codes), names, provinces)
  IN  /\ \A f \in {"location.country_code", "country_code", "countryCode"}, c \in {"US", "HK"} :
           Label(f :> c) = names[c]
      /\ Label([country_code |-> "CN", region_code |-> "BJ"]) = Label([country_code |-> "CN", state_prov |-> "beijing"])
      /\ Label([country_code |-> "CN", region |-> "elsewhere"]) = "China"
      /\ Label([country_code |-> "CN", country |-> "hk", region |-> "beijing"]) = "Hong Kong"
      /\ Label([country_code |-> "zz"]) = "unknown" /\ Label([other |-> "US"]) = "unknown"

----------------------------------------------------------------------------
(* The cache                                                               *)
Entry(cache, key) == {i \in DOMAIN cache : cache[i].key = key}
Without(cache, key) == SelectSeq(cache, LAMBDA e : e.key # key)
(* The oldest entries go; of entries stored at one time the first ones     *)
Older(cache, i, j) == cache[i].stored < cache[j].stored
                      \/ (cache[i].stored = cache[j].stored /\ i < j)
TrimCache(cache) ==
  LET excess == Len(cache) - MAX_CACHE_ENTRIES
      gone == {i \in DOMAIN cache :
                 Cardinality({j \in DOMAIN cache : Older(cache, j, i)}) < excess}
  IN IF excess <= 0 THEN cache
     ELSE SelectSeq(cache, LAMBDA e : \A i \in gone : cache[i] # e)
ReadCache(stored, now) == TrimCache(SelectSeq(stored, LAMBDA e : e.expires > now))
StoreEntry(g, key, status) ==
  LET e == [key |-> key, status |-> status, stored |-> g.now,
            expires |-> g.now + IF status = "ok" THEN POSITIVE_TTL ELSE NEGATIVE_TTL]
      at == Entry(g.cache, key)
  IN [g EXCEPT !.cache = TrimCache(IF at = {} THEN Append(g.cache, e)
                                   ELSE [g.cache EXCEPT ![CHOOSE i \in at : TRUE] = e]),
               !.persist = TRUE]
StoreSuccess(g, ip) == StoreEntry(g, KeyOf[ip], "ok")
StoreFailure(g, ip) == StoreEntry(g, KeyOf[ip], "fail")

(* An entry that has expired is removed when it is looked at               *)
Cached(g, ip) ==
  LET at == Entry(g.cache, KeyOf[ip])
      e == g.cache[CHOOSE i \in at : TRUE]
  IN IF at = {} THEN [g |-> g, hit |-> FALSE]
     ELSE IF e.expires <= g.now
       THEN [g |-> [g EXCEPT !.cache = Without(g.cache, KeyOf[ip]), !.persist = TRUE], hit |-> FALSE]
       ELSE [g |-> g, hit |-> TRUE]
Peek(g, ip) == Cached(g, ip)
Unlabelled(g, ip) == ~Cached(g, ip).hit            (* "查询中…" *)

(* Lookups wait in a queue; at most MAX_CONCURRENCY are under way, each    *)
(* trying the services one after the other                                 *)
Pump(g) ==
  LET n == MAX_CONCURRENCY - Cardinality(g.active)
      k == IF n < Len(g.queue) THEN n ELSE Len(g.queue)
  IN IF g.disposed THEN g
     ELSE [g EXCEPT !.active = @ \cup {[ip |-> g.queue[i], source |-> 1] : i \in 1..k},
                    !.queue = SubSeq(@, k + 1, Len(@))]
LookupKeys(g) == {KeyOf[g.queue[i]] : i \in DOMAIN g.queue} \cup {KeyOf[a.ip] : a \in g.active}

Resolve(g, ip) ==
  LET p == Peek(g, ip) IN
  IF g.disposed \/ p.hit \/ KeyOf[ip] \in LookupKeys(p.g) THEN p.g
  ELSE Pump([p.g EXCEPT !.queue = Append(@, ip)])

(* The page asks for the addresses it shows, one batch at a time.  The     *)
(* addresses are asked for in some order.                                  *)
InOrder(S) == {s \in [1..Cardinality(S) -> S] : \A i, j \in DOMAIN s : s[i] = s[j] => i = j}
ResolveAll(g, order) ==
  LET f[i \in 0..Len(order)] == IF i = 0 THEN g ELSE Resolve(f[i - 1], order[i])
  IN f[Len(order)]
(* The possible results of rendering the page with these addresses         *)
RequestLocations(g, ips) ==
  LET asked == {ip \in ips : Unlabelled(g, ip)}
      seen == [g EXCEPT !.looking = asked]
  IN IF g.disposed \/ g.batch # {} THEN {seen}
     ELSE {[ResolveAll(seen, o) EXCEPT !.batch = {KeyOf[ip] : ip \in asked}] : o \in InOrder(asked)}

GeoStart ==
  UNION {RequestLocations(
    [cache |-> ReadCache(stored, 0), store |-> stored, persist |-> FALSE, now |-> 0, queue |-> <<>>,
     active |-> {}, batch |-> {}, looking |-> {}, disposed |-> FALSE], ld.ips) :
    stored \in {<<>>} \cup {<<[key |-> k, status |-> s, stored |-> 0, expires |-> 1]>> :
                               k \in GeoKeys, s \in {"ok", "fail"}}}

(* A lookup is over: its task is answered, the next one starts, and when   *)
(* it was the last of the batch the page is rendered again                 *)
LookupEnds(g, a) ==
  LET h == Pump([g EXCEPT !.active = @ \ {a}])
  IN IF h.batch = {} \/ h.batch \cap LookupKeys(h) # {} THEN {h}
     ELSE RequestLocations([h EXCEPT !.batch = {}], ld.ips)

LookupSucceeds ==
  /\ \E a \in geo.active : geo' \in LookupEnds(StoreSuccess(geo, a.ip), a)
  /\ UNCHANGED ld
SourceFails ==
  /\ \E a \in geo.active :
       IF a.source < GeoSources
         THEN geo' = [geo EXCEPT !.active = (@ \ {a}) \cup {[a EXCEPT !.source = @ + 1]}]
         ELSE geo' \in LookupEnds(StoreFailure(geo, a.ip), a)
  /\ UNCHANGED ld
(* REQUEST_TIMEOUT_MS runs from the first service on                       *)
LookupTimesOut ==
  /\ \E a \in geo.active : geo' \in LookupEnds(StoreFailure(geo, a.ip), a)
  /\ UNCHANGED ld
Persist ==
  /\ geo.persist /\ ~geo.disposed
  /\ geo' = [geo EXCEPT !.cache = TrimCache(@), !.store = TrimCache(geo.cache), !.persist = FALSE]
  /\ UNCHANGED ld
GeoClock ==
  /\ geo.now < GeoTimes
  /\ geo' = [geo EXCEPT !.now = @ + 1]
  /\ UNCHANGED ld
DisposeGeo(g) ==
  [g EXCEPT !.disposed = TRUE, !.persist = FALSE, !.queue = <<>>, !.active = {}, !.batch = {}]

----------------------------------------------------------------------------
(* The controller.                                                         *)
(* The interval the page keeps: its own preference, which an older version *)
(* stored under another key; where the browser has no storage, that of the *)
(* status page.  An interval that the page does not offer is put right.    *)
REFRESH_CHOICES == {1000, 2000, 3000, 5000, 10000}
NSS_REFRESH_CHOICES == {1000, 2000, 4000, 8000, 10000}
DetailPrefs(storage, stored, legacy, shared) ==
  LET only(set) == CHOOSE p \in set : TRUE
      kept == CASE ~storage -> shared
                [] storage /\ stored # {} -> only(stored)
                [] storage /\ stored = {} /\ legacy # {} ->
                     [only(legacy) EXCEPT !.refreshMs = IF @ = 3000 THEN 1000 ELSE @,
                                          !.nssRefreshMs = IF @ = 2000 THEN 1000 ELSE @]
                [] OTHER -> [refreshMs |-> 1000, nssRefreshMs |-> 1000]
  IN [refreshMs |-> IF kept.refreshMs \in REFRESH_CHOICES THEN kept.refreshMs ELSE 1000,
      nssRefreshMs |-> IF kept.nssRefreshMs \in NSS_REFRESH_CHOICES THEN kept.nssRefreshMs ELSE 1000]
DetailRefreshMs(nss, prefs) == IF nss THEN prefs.nssRefreshMs ELSE prefs.refreshMs
(* Whatever was stored, by which version ever, the interval is one that    *)
(* the page offers, and what the older version stored is read as the       *)
(* newer one stores it (clientDetailView.js:22-115).                       *)
ASSUME RefreshIsOffered ==
  LET stores == {{}} \cup {{[refreshMs |-> r, nssRefreshMs |-> n]} : r, n \in {0, 500, 2000, 3000, 4000, 7777}}
      shared == [refreshMs |-> 5000, nssRefreshMs |-> 8000]
  IN  \A storage \in BOOLEAN, stored, legacy \in stores :
        LET prefs == DetailPrefs(storage, stored, legacy, shared)
        IN  /\ DetailRefreshMs(FALSE, prefs) \in REFRESH_CHOICES /\ DetailRefreshMs(TRUE, prefs) \in NSS_REFRESH_CHOICES
            /\ DetailPrefs(storage, {prefs}, legacy, prefs) = prefs

(* What the controller does when a request is over, or asks for the next   *)
DetailSchedule(s) == [s EXCEPT !.timer = ~s.destroyed /\ ~s.paused]
DetailReload(s, manual) ==
  IF s.pending THEN [s EXCEPT !.manual = @ \/ manual]
  ELSE [s EXCEPT !.timer = FALSE, !.pending = TRUE, !.manual = manual]

DetailInit ==
  /\ \E ips \in DetailPagesOf, paused \in BOOLEAN, name \in {"n1"} :
       ld = [ips |-> ips, paused |-> paused, timer |-> ~paused,
             pending |-> FALSE, manual |-> FALSE, destroyed |-> FALSE,
             dialog |-> "none", uci |-> name, cached |-> name, name |-> name, asked |-> "",
             changes |-> 0, clicks |-> 0]
  /\ geo \in GeoStart

(* Rendering starts a batch of lookups                                     *)
Renders(s) == /\ ld' = s
              /\ geo' \in RequestLocations(geo, s.ips)

(* A click, of which there are MaxDetailClicks                             *)
Clicked(s) == /\ ~ld.destroyed /\ ld.clicks < MaxDetailClicks
              /\ Renders([s EXCEPT !.clicks = @ + 1])

DetailTimerFires == ld.timer /\ ~ld.destroyed /\ Renders(DetailReload([ld EXCEPT !.timer = FALSE], FALSE))
RefreshClicked == ~ld.manual /\ Clicked(DetailReload(ld, TRUE))
ConnectionsAnswered ==
  /\ ld.pending
  /\ \E ips \in DetailPagesOf :
       Renders(DetailSchedule([ld EXCEPT !.pending = FALSE, !.manual = FALSE, !.ips = ips]))
ConnectionsFail ==
  /\ ld.pending
  /\ Renders(DetailSchedule([ld EXCEPT !.pending = FALSE, !.manual = FALSE]))

(* Mutant: a page that runs on waits for a click                           *)
ResumesSilently ==
  Clicked([ld EXCEPT !.paused = ~@, !.timer = FALSE])
SetPaused ==
  LET s == [ld EXCEPT !.paused = ~@]
  IN Clicked(IF s.paused THEN [s EXCEPT !.timer = FALSE]
             ELSE IF ~s.pending THEN DetailSchedule(s) ELSE s)
SetRefreshMs ==
  Clicked(IF ld.pending THEN ld ELSE DetailSchedule(ld))
(* setProtocol, setFilter, setSort and setPage choose other rows           *)
ChooseRows == \E ips \in DetailPagesOf : Clicked([ld EXCEPT !.ips = ips])

----------------------------------------------------------------------------
(* The host name.  uci.load reads /etc/config/dhcp once, and keeps it      *)
(* (ld.cached) until the page is loaded again, which the end of            *)
(* ui.changes.apply does.  An empty name removes the option.               *)
OpenHostnameDialog ==
  /\ ~ld.destroyed /\ ld.dialog = "none"
  /\ Renders([ld EXCEPT !.dialog = "opening"])
HostnameLoaded(ok) ==
  /\ ld.dialog = "opening" /\ ~ld.destroyed
  /\ Renders(IF ok THEN [ld EXCEPT !.dialog = "open", !.name = ld.cached]
             ELSE [ld EXCEPT !.dialog = "none"])
SaveDetailHostname(name) ==
  /\ ld.dialog = "open" /\ ~ld.destroyed /\ ld.changes < MaxNames
  /\ ld' = IF name = ld.name THEN [ld EXCEPT !.dialog = "none"]
           ELSE [ld EXCEPT !.dialog = "saving", !.asked = name, !.changes = @ + 1]
  /\ UNCHANGED geo
SaveForMac(uci, asked) == asked
(* uciSet or uciDelete answered; then ui.changes.apply and a manual reload *)
HostnameSaved(ok) ==
  /\ ld.dialog = "saving" /\ ~ld.destroyed
  /\ Renders(IF ok THEN DetailReload([ld EXCEPT !.uci = SaveForMac(ld.uci, ld.asked), !.name = ld.asked,
                                                !.dialog = "none"], TRUE)
             ELSE [ld EXCEPT !.dialog = "open"])
HostnameCancelled == /\ ld.dialog = "open"
                     /\ ld' = [ld EXCEPT !.dialog = "none"]
                     /\ UNCHANGED geo
(* The applied changes load the page anew                                  *)
PageLoadedAgain ==
  /\ ld.uci # ld.cached /\ ld.dialog = "none" /\ ~ld.destroyed
  /\ ld' = [ld EXCEPT !.cached = ld.uci, !.name = ld.uci, !.timer = ~ld.paused, !.pending = FALSE,
                      !.manual = FALSE]
  /\ geo' \in RequestLocations([DisposeGeo(geo) EXCEPT !.disposed = FALSE,
                                                       !.cache = ReadCache(geo.store, geo.now)], ld.ips)

DestroyDetail ==
  /\ ~ld.destroyed
  /\ ld' = [ld EXCEPT !.destroyed = TRUE, !.timer = FALSE, !.dialog = "none"]
  /\ geo' = DisposeGeo(geo)

DetailNext ==
  \/ DetailTimerFires \/ RefreshClicked \/ ConnectionsAnswered \/ ConnectionsFail
  \/ SetPaused \/ SetRefreshMs \/ ChooseRows \/ OpenHostnameDialog \/ HostnameCancelled
  \/ \E ok \in BOOLEAN : HostnameLoaded(ok) \/ HostnameSaved(ok)
  \/ \E name \in {"", "n1"} : SaveDetailHostname(name)
  \/ PageLoadedAgain \/ DestroyDetail
  \/ LookupSucceeds \/ SourceFails \/ LookupTimesOut \/ Persist \/ GeoClock

detailVars == <<ld, geo>>
DetailSpec == DetailInit /\ [][DetailNext]_detailVars

(* No more lookups are under way than the resolver allows, none twice for  *)
(* one key, and the batch of the page waits for lookups that exist         *)
(* (geoLocation.js:626-664, clientDetailView.js:538-557).                  *)
LookupsBounded ==
  /\ Cardinality(geo.active) <= MAX_CONCURRENCY
  /\ Cardinality(LookupKeys(geo)) = Cardinality(geo.active) + Len(geo.queue)
  /\ geo.batch \subseteq LookupKeys(geo) \cup {geo.cache[i].key : i \in DOMAIN geo.cache}
  /\ geo.batch # {} => geo.batch \cap LookupKeys(geo) # {}
  /\ Len(geo.cache) <= MAX_CACHE_ENTRIES

(* The page never stops by itself: unless it is paused, a timer runs or a  *)
(* request is under way, and an address that is shown as being looked up   *)
(* belongs to a batch that is waited for, at whose end the page is         *)
(* rendered again (clientDetailView.js:348-416, 502-557).                  *)
DetailNeverStalls ==
  ld.destroyed \/ /\ ld.paused \/ ld.timer \/ ld.pending
                  /\ geo.looking # {} => geo.batch # {}
=============================================================================
