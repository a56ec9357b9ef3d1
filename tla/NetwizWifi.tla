----------------------------- MODULE NetwizWifi -----------------------------
(***************************************************************************)
(* The Wi-Fi form of the network wizard (netwiz.js): what the page reads   *)
(* from the radios when it loads, the fields that rewrite each other       *)
(* (password and encryption, roaming and encryption, one band's name and   *)
(* the other's, merged and split), the checks of the Next button and the   *)
(* payload of the Apply button.                                            *)
(*                                                                         *)
(* A name is a base and the suffix the page gives a band ("_2.4G", "_5G",  *)
(* "_5G_Game"); a password is empty, shorter than eight characters or long *)
(* enough.  Channel, width, mode and the hidden flag are copied from field *)
(* to payload and interact with nothing; they are left out.                *)
(***************************************************************************)
EXTENDS Naturals, FiniteSets

CONSTANTS
    RadioSets,      \* chip arrangements: "single2g", "single5g", "dual", "tri"
    StoredNets,     \* what /etc/config/wireless may hold for one band
    TypedNames,     \* names the user may type
    MaxWifiEdits    \* bound on the user's edits

VARIABLE nf

NwBands == {"2g", "5g", "5g2"}
NwNets  == NwBands \cup {"smart"}
NwKeys  == {"", "short", "long"}
NwEncs  == {"none", "psk"}

NoSsid == <<"", "none">>
NoNet  == [en |-> FALSE, ssid |-> NoSsid, key |-> "", enc |-> "psk", roam |-> FALSE, dirty |-> FALSE]

(* The fields as the template has them: all but the third radio switched on. *)
Untouched(n) == [NoNet EXCEPT !.en = n # "5g2"]

ASSUME NetwizWifiAssumption ==
    /\ RadioSets \subseteq {"single2g", "single5g", "dual", "tri"}
    /\ StoredNets \subseteq [ssid : {NoSsid} \cup TypedNames, key : NwKeys, enc : NwEncs,
                             off : BOOLEAN, roam : BOOLEAN, domain : BOOLEAN]
    /\ MaxWifiEdits \in Nat

-----------------------------------------------------------------------------
(* Names and linked fields.                                                *)

CleanSsidSuffix(ssid) == ssid[1]

SmartConvertSsid(ssid, band) == <<IF ssid = NoSsid THEN "OpenWrt" ELSE CleanSsidSuffix(ssid), band>>

Single(w) == w.radios \in {"single2g", "single5g"}

IsSmart(w) == w.smart /\ ~Single(w)

(* A roaming switch changes: a stale roaming setup is forgotten and must be *)
(* submitted again, and roaming needs encryption.                           *)
RoamChange(w, n, on) ==
    [w EXCEPT !.force = @ \/ w.net[n].dirty,
              !.net[n].roam = on,
              !.net[n].dirty = FALSE,
              !.net[n].enc = IF on /\ @ = "none" THEN "psk" ELSE @]

(* Showing one of the two main bands names it after the other one.         *)
TabClick(w, b) ==
    LET o    == IF b = "2g" THEN "5g" ELSE "2g"
        s    == w.net[b].ssid
        from == w.net[o].ssid
        same == from # NoSsid /\ (s = NoSsid \/ CleanSsidSuffix(s) = CleanSsidSuffix(from))
    IN  IF b = "5g2" \/ ~same
        THEN [w EXCEPT !.tab = b]
        ELSE [w EXCEPT !.tab = b,
                       !.net[b].ssid = SmartConvertSsid(from, b),
                       !.net[b].key  = IF @ = "" THEN w.net[o].key ELSE @]

(* The tab of the first band of the list that is switched on.              *)
JumpTo(w, first, second, third, otherwise) ==
    TabClick(w, IF w.net[first].en THEN first
                ELSE IF w.net[second].en THEN second
                ELSE IF w.net[third].en THEN third ELSE otherwise)

(* A single chip serves one band: switching one on takes the other's name  *)
(* and password over.                                                      *)
TakeOver(w, b, o, named) ==
    IF ~(w.net[b].en /\ Single(w)) THEN w
    ELSE LET v == [w EXCEPT !.net[o].en = FALSE]
         IN  IF w.net[o].ssid = NoSsid \/ ~(w.net[b].ssid = NoSsid \/ named)
             THEN v
             ELSE [v EXCEPT !.net[b].ssid = SmartConvertSsid(w.net[o].ssid, b),
                            !.net[b].key  = IF @ = "" THEN w.net[o].key ELSE @,
                            !.net[b].enc  = w.net[o].enc]

Enable2g(w, on) ==
    LET r == RoamChange([w EXCEPT !.net["2g"].en = on], "2g", FALSE)
        t == JumpTo(r, "2g", "5g", "5g2", "2g")
    IN  TakeOver(t, "2g", "5g", t.net["2g"].ssid = t.net["5g"].ssid)

Enable5g(w, on) ==
    LET r == RoamChange([w EXCEPT !.net["5g"].en = on], "5g", on)
        t == JumpTo(r, "5g", "2g", "5g2", "5g")
        v == TakeOver(t, "5g", "2g",
                      CleanSsidSuffix(t.net["5g"].ssid) = CleanSsidSuffix(t.net["2g"].ssid))
    IN  IF on /\ ~Single(w) /\ v.net["5g"].ssid # NoSsid /\ v.net["5g2"].ssid = NoSsid
        THEN [v EXCEPT !.net["5g2"].ssid = SmartConvertSsid(v.net["5g"].ssid, "5g2"),
                       !.net["5g2"].key  = IF @ = "" THEN v.net["5g"].key ELSE @]
        ELSE v

Enable5g2(w, on) ==
    LET t   == JumpTo([w EXCEPT !.net["5g2"].en = on], "5g2", "2g", "5g", "5g2")
        ref == IF t.net["5g"].ssid # NoSsid THEN t.net["5g"].ssid ELSE t.net["2g"].ssid
        key == IF t.net["5g"].key # "" THEN t.net["5g"].key ELSE t.net["2g"].key
        s   == t.net["5g2"].ssid
    IN  IF on /\ ref # NoSsid /\ (s = NoSsid \/ CleanSsidSuffix(s) = CleanSsidSuffix(ref))
        THEN [t EXCEPT !.net["5g2"].ssid = SmartConvertSsid(ref, "5g2"),
                       !.net["5g2"].key  = IF @ = "" THEN key ELSE @]
        ELSE t

(* The merge switch; only a change made by the user rewrites the fields.   *)
SmartChange(w, on, trusted) ==
    LET v    == [w EXCEPT !.smart = on]
        pick == IF w.net["5g"].en \/ ~w.net["2g"].en THEN "5g" ELSE "2g"
        p    == w.net[pick]
        m    == IF p.ssid = NoSsid THEN v
                ELSE [v EXCEPT !.net["smart"].ssid = <<CleanSsidSuffix(p.ssid), "none">>,
                               !.net["smart"].key = p.key, !.net["smart"].enc = p.enc]
        base == w.net["smart"]
        split == [v EXCEPT !.net = [n \in NwNets |-> IF n = "smart" THEN @[n]
                     ELSE [@[n] EXCEPT !.ssid = SmartConvertSsid(base.ssid, n),
                                       !.key = base.key, !.enc = base.enc]]]
        roams == RoamChange(RoamChange(split, "2g", FALSE), "5g", TRUE)
    IN  IF on THEN IF trusted THEN RoamChange(m, "smart", TRUE) ELSE v
        ELSE JumpTo(IF trusted THEN roams ELSE v, "2g", "5g", "5g2", "2g")

LegacyChange(w, on) ==
    LET v == [w EXCEPT !.legacy = on]
    IN  IF on /\ w.smart THEN SmartChange(v, FALSE, FALSE) ELSE v

(* Password and encryption follow each other.                              *)
TypeKey(w, n, key) ==
    [w EXCEPT !.net[n].key = key,
              !.net[n].enc = CASE key # "" /\ @ = "none" /\ n # "5g2" -> "psk"
                               [] key = "" /\ n # "5g2" -> "none"
                               [] OTHER -> @]

ChooseEnc(w, n, enc) ==
    [w EXCEPT !.net[n].enc = enc, !.net[n].key = IF enc = "none" THEN "" ELSE @]

-----------------------------------------------------------------------------
(* Loading.                                                                *)

SyncRoam(net, s) ==
    [net EXCEPT !.roam = s.roam, !.dirty = s.roam /\ (~s.domain \/ net.enc = "none")]

Filled(s) == [NoNet EXCEPT !.en = ~s.off, !.ssid = s.ssid, !.key = s.key, !.enc = s.enc]

(* One chip: the active network fills its band, the idle one, or a copy of *)
(* the active one, the other band.                                         *)
LoadSingle(radios, act, idle) ==
    LET b    == IF radios = "single5g" THEN "5g" ELSE "2g"
        o    == IF b = "2g" THEN "5g" ELSE "2g"
        copy == IF idle.ssid # NoSsid THEN idle ELSE act
        name == IF idle.ssid # NoSsid /\ idle.ssid # act.ssid
                THEN idle.ssid ELSE SmartConvertSsid(act.ssid, o)
    IN  [n \in NwNets |-> CASE n = b -> SyncRoam(Filled(act), act)
                            [] n = o -> [Filled(copy) EXCEPT !.en = FALSE, !.ssid = name]
                            [] OTHER -> Untouched(n)]

IsSmartStore(s2, s5) ==
    \/ s2.ssid # NoSsid /\ s2.ssid = s5.ssid /\ s2.key = s5.key /\ s2.enc = s5.enc
    \/ s2.ssid = NoSsid /\ s5.ssid = NoSsid /\ ~s2.off /\ ~s5.off

LoadMulti(s2, s5, s52) ==
    IF IsSmartStore(s2, s5)
    THEN [n \in NwNets |-> CASE n = "smart" -> SyncRoam([Filled(s2) EXCEPT !.en = ~s2.off /\ ~s5.off], s5)
                             [] n = "2g" -> SyncRoam(Untouched(n), s2)
                             [] n = "5g" -> SyncRoam(Untouched(n), s5)
                             [] OTHER -> Untouched(n)]
    ELSE [n \in NwNets |-> CASE n = "2g" -> SyncRoam(Filled(s2), s2)
                             [] n = "5g" -> SyncRoam(Filled(s5), s5)
                             [] n = "smart" -> SyncRoam(Untouched(n), s5)
                             [] OTHER -> [Filled(s52) EXCEPT !.enc = "psk"]]

(* What the page remembers of its fields, to tell whether anything changed. *)
GetWifiSnapshot(w) ==
    LET seen(n) == <<w.net[n].en, w.net[n].ssid, w.net[n].key, w.net[n].enc, w.net[n].roam>>
    IN  <<w.smart, w.legacy, w.wisp,
          IF w.smart THEN <<seen("smart")>>
          ELSE <<seen("2g"), seen("5g"), <<w.net["5g2"].en, w.net["5g2"].ssid, w.net["5g2"].key>> >> >>

NoWisp == [on |-> FALSE, ssid |-> NoSsid, key |-> "", enc |-> "none"]

Blank(radios) ==
    [radios |-> radios, net |-> [n \in NwNets |-> Untouched(n)], smart |-> FALSE, legacy |-> FALSE,
     tab |-> "2g", wisp |-> NoWisp, force |-> FALSE, orig |-> <<>>, step |-> "form",
     agreed |-> FALSE, sent |-> {}, edits |-> 0, late |-> FALSE, stored |-> {}]

(* The fields are filled, the snapshot is taken; with one chip the click   *)
(* on the band's tab comes 50 ms later.                                    *)
LoadWifi(radios, s2, s5, s52) ==
    LET w == Blank(radios)
        filled == IF Single(w)
                  THEN [w EXCEPT !.net = IF radios = "single5g" THEN LoadSingle(radios, s5, s2)
                                         ELSE LoadSingle(radios, s2, s5), !.late = TRUE]
                  ELSE SmartChange([w EXCEPT !.net = LoadMulti(s2, s5, s52)], IsSmartStore(s2, s5), FALSE)
        kept == [filled EXCEPT !.stored =
                    (IF radios = "single5g" THEN {} ELSE {<<"2g", s2.ssid>>})
                    \cup (IF radios = "single2g" THEN {} ELSE {<<"5g", s5.ssid>>})]
    IN  [kept EXCEPT !.orig = GetWifiSnapshot(kept)]

NetwizWifiInit == \E r \in RadioSets : nf = [Blank(r) EXCEPT !.step = "loading"]

WifiLoads ==
    /\ nf.step = "loading"
    /\ \E s2, s5 \in StoredNets :
          nf' = LoadWifi(nf.radios, s2, s5, [s5 EXCEPT !.off = TRUE, !.ssid = NoSsid])

LateTabClick ==
    /\ nf.late
    /\ nf' = [TabClick(nf, IF nf.radios = "single5g" THEN "5g" ELSE "2g") EXCEPT !.late = FALSE]

-----------------------------------------------------------------------------
(* The user's edits.                                                       *)

Reachable(n) == IF IsSmart(nf) THEN n = "smart"
                ELSE n \in {"2g", "5g"} \/ (n = "5g2" /\ nf.radios = "tri")

Retyped(w) == nf' = [w EXCEPT !.edits = @ + 1, !.agreed = FALSE]

WifiEdit ==
    /\ nf.step = "form"
    /\ nf.edits < MaxWifiEdits
    /\ \/ \E n \in NwNets, k \in NwKeys : Reachable(n) /\ Retyped(TypeKey(nf, n, k))
       \/ \E n \in NwNets \ {"5g2"}, e \in NwEncs : Reachable(n) /\ Retyped(ChooseEnc(nf, n, e))
       \/ \E n \in NwNets, s \in TypedNames \cup {NoSsid} :
             Reachable(n) /\ Retyped([nf EXCEPT !.net[n].ssid = s])
       \/ \E n \in NwNets \ {"5g2"} : Reachable(n) /\ Retyped(RoamChange(nf, n, ~nf.net[n].roam))
       \/ IsSmart(nf) /\ Retyped([nf EXCEPT !.net["smart"].en = ~@])
       \/ ~IsSmart(nf) /\ Retyped(Enable2g(nf, ~nf.net["2g"].en))
       \/ ~IsSmart(nf) /\ Retyped(Enable5g(nf, ~nf.net["5g"].en))
       \/ nf.radios = "tri" /\ ~IsSmart(nf) /\ Retyped(Enable5g2(nf, ~nf.net["5g2"].en))
       \/ ~IsSmart(nf) /\ \E b \in NwBands : Reachable(b) /\ Retyped(TabClick(nf, b))
       \/ ~Single(nf) /\ Retyped(SmartChange(nf, ~nf.smart, TRUE))
       \/ Retyped(LegacyChange(nf, ~nf.legacy))

(* The roaming badge of the status card opens the form at its band.        *)
GotoRoam ==
    /\ nf.step = "home"
    /\ \E b \in {"2g", "5g"} :
          nf' = [(IF IsSmart(nf) THEN nf ELSE TabClick(nf, b)) EXCEPT !.step = "form"]

(* The relay: scan, pick a network (its security decides what is asked),   *)
(* type its password.                                                      *)
WispEdit ==
    /\ nf.step = "form"
    /\ nf.edits < MaxWifiEdits
    /\ \/ Retyped([nf EXCEPT !.wisp.on = ~@])
       \/ \E s \in TypedNames, e \in NwEncs :
             Retyped([nf EXCEPT !.wisp.ssid = s, !.wisp.enc = e,
                               !.wisp.key = IF e = "none" THEN "" ELSE @])
       \/ \E k \in NwKeys : Retyped([nf EXCEPT !.wisp.key = k])

-----------------------------------------------------------------------------
(* Next, the summary, Apply.                                               *)

Fine(net) == ~net.en \/ (net.ssid # NoSsid /\ (net.enc = "none" \/ net.key = "long"))

WifiValid(w) ==
    LET used == IF IsSmart(w) THEN {"smart"} ELSE {"2g", "5g"}
    IN  \A n \in used : Fine(w.net[n])

WispValid(w) == ~w.wisp.on \/ (w.wisp.ssid # NoSsid /\ (w.wisp.enc = "none" \/ w.wisp.key = "long"))

(* A slip: the warning looks at one band only.                             *)
AsksFor2gOnly(w) ==
    LET n == IF IsSmart(w) THEN "smart" ELSE "2g"
    IN  w.net[n].en /\ w.net[n].enc = "none"

HasOpenWifi(w) ==
    LET used == IF IsSmart(w) THEN {"smart"} ELSE {"2g", "5g"}
    IN  \E n \in used : w.net[n].en /\ w.net[n].enc = "none"

IsNoMod(w) == ~w.force /\ GetWifiSnapshot(w) = w.orig

WifiNext2 ==
    /\ nf.step = "form"
    /\ WifiValid(nf) /\ WispValid(nf)
    /\ \/ /\ IsNoMod(nf)
          /\ nf' = [nf EXCEPT !.step = "home"]
       \/ /\ ~IsNoMod(nf)
          /\ nf' = [nf EXCEPT !.step = IF HasOpenWifi(nf) THEN "warned" ELSE "summary"]

OpenWarning ==
    /\ nf.step = "warned"
    /\ \/ nf' = [nf EXCEPT !.step = "summary", !.agreed = TRUE]
       \/ nf' = [nf EXCEPT !.step = "form"]

WifiBack ==
    \/ nf.step = "summary" /\ nf' = [nf EXCEPT !.step = "form"]
    \/ nf.step = "form" /\ nf' = [nf EXCEPT !.step = "home"]
    \/ nf.step = "home" /\ nf' = [nf EXCEPT !.step = "form"]

(* The payload: the merged network, or one entry per radio; the third      *)
(* radio's encryption is fixed.                                            *)
WifiPayload(w) ==
    LET entry(n) == [band |-> n, en |-> w.net[n].en, ssid |-> w.net[n].ssid,
                     key |-> w.net[n].key, enc |-> w.net[n].enc]
    IN  IF IsSmart(w) THEN {entry("smart")}
        ELSE {entry("2g"), entry("5g")}
             \cup (IF w.radios = "tri" THEN {[entry("5g2") EXCEPT !.enc = "psk"]} ELSE {})

WifiApply ==
    /\ nf.step = "summary"
    /\ nf' = [nf EXCEPT !.step = "sent", !.sent = WifiPayload(nf)]

NetwizWifiNext ==
    \/ WifiLoads
    \/ LateTabClick
    \/ WifiEdit
    \/ WispEdit
    \/ GotoRoam
    \/ WifiNext2
    \/ OpenWarning
    \/ WifiBack
    \/ WifiApply
    \/ nf.step = "sent" /\ UNCHANGED nf

NetwizWifiSpec == NetwizWifiInit /\ [][NetwizWifiNext]_nf

-----------------------------------------------------------------------------

(* Whatever fields rewrote each other on the way, a main network that is   *)
(* sent switched on has a name and either a password of eight characters   *)
(* or the user's answer to the warning about open networks.                *)
SentIsProtected ==
    \A e \in nf.sent : e.band # "5g2" /\ e.en =>
        /\ e.ssid # NoSsid
        /\ IF e.enc = "none" THEN nf.agreed ELSE e.key = "long"

(* "Do not overwrite the underlying data when the page loads" (the comment  *)
(* at the early return of the merge switch): without any edit, the form    *)
(* shows the names the radios have.                                        *)
LoadKeepsStored ==
    nf.edits = 0 /\ ~nf.smart => \A s \in nf.stored : nf.net[s[1]].ssid = s[2]
=============================================================================
