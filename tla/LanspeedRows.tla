---------------------------- MODULE LanspeedRows ----------------------------
(***************************************************************************)
(* What lanspeed's pages make of an answer of the daemon: which clients    *)
(* are listed, in which order and on which page (format.js, statusIp.js,   *)
(* statusRefresh.js), and how the connections of one client are grouped    *)
(* (clientConnections.js, clientDetailRefresh.js).  Names and addresses    *)
(* are numbers; a missing number is Missing.                               *)
(***************************************************************************)
EXTENDS Integers, Sequences, FiniteSets, FiniteSetsExt, SequencesExt

Missing == -1
AsNumber(v) == IF v = Missing THEN 0 ELSE v

----------------------------------------------------------------------------
(* Active clients.  On the NSS platform a rate is enough; elsewhere the    *)
(* client must have been seen within the window before the latest sample.  *)
IsNssActiveClient(c, sample, min) == sample > 0 /\ c.tx + c.rx >= min
IsX86ActiveClient(c, sample, min, window) ==
  /\ c.tx + c.rx >= min
  /\ sample > 0 /\ c.seen > 0 /\ c.seen <= sample
  /\ sample - c.seen <= window
IsActiveClient(c, sample, cfg) ==
  IF c.mode \in {"access_edge", "nss_ecm_node", "nss_ecm_bpf"}
    THEN IsNssActiveClient(c, sample, cfg.min)
    ELSE IsX86ActiveClient(c, sample, cfg.min, cfg.window)
LatestSample(clients) == Max({0} \cup {c.sample : c \in clients})
PositiveNumber(v, fallback) == IF v > 0 THEN v ELSE fallback
ActiveConfig(status) ==
  [window |-> PositiveNumber(status.window, 10), min |-> PositiveNumber(status.min, 1)]

(* The order: active ones first, then the column, a missing count last in  *)
(* either direction, then the identity                                     *)
ComesBefore(a, b, key, desc, sample, cfg) ==
  LET active(c) == IsActiveClient(c, sample, cfg)
      value(c) == CASE key = "tx" -> c.tx [] key = "rx" -> c.rx [] key = "tcp_conns" -> c.conns
                    [] OTHER -> c.name
      counts == key = "tcp_conns" IN
  CASE active(a) # active(b) -> active(a)
    [] active(a) = active(b) /\ counts /\ (value(a) = Missing) # (value(b) = Missing) ->
         value(b) = Missing
    [] OTHER -> IF value(a) # value(b)
                  THEN (IF desc THEN value(a) > value(b) ELSE value(a) < value(b))
                  ELSE a.id < b.id

SampleClients ==
  {[id |-> i, name |-> 1, tx |-> t, rx |-> 0, conns |-> n, seen |-> s, sample |-> 2, mode |-> m] :
     i \in 1..3, t \in {0, 5}, n \in {Missing, 0, 4}, s \in {0, 2}, m \in {"bpf"}}
(* Sorting is defined: the order is strict and total on clients that are   *)
(* different, for every column and direction                               *)
ASSUME ClientOrderIsTotal ==
  \A key \in {"tx", "tcp_conns"}, desc \in BOOLEAN :
    LET cfg == ActiveConfig([window |-> 0, min |-> 0])
        lt == [p \in SampleClients \X SampleClients |->
                 ComesBefore(p[1], p[2], key, desc, 2, cfg)] IN
    \A a, b \in SampleClients :
      a.id # b.id =>
        /\ lt[a, b] # lt[b, a]
        /\ \A c \in SampleClients : c.id \notin {a.id, b.id} /\ lt[a, b] /\ lt[b, c] => lt[a, c]

(* Clicking a column's header: descending, ascending, the default order    *)
DefaultSort == [key |-> "rx", desc |-> TRUE, custom |-> FALSE]
NextSort(prefs, key) ==
  IF ~prefs.custom \/ prefs.key # key THEN [key |-> key, desc |-> TRUE, custom |-> TRUE]
  ELSE IF prefs.desc THEN [key |-> key, desc |-> FALSE, custom |-> TRUE]
  ELSE DefaultSort
(* What was stored by an older version of the page is put right            *)
LoadPrefs(stored) ==
  LET key == IF stored.key \in {"hostname", "mac", "tx", "rx", "tcp_conns", "udp_conns"}
               THEN stored.key ELSE DefaultSort.key
      custom == IF stored.custom \in {"yes", "no"} THEN stored.custom = "yes"
                ELSE key # DefaultSort.key \/ ~stored.desc IN
  IF custom THEN [key |-> key, desc |-> stored.desc, custom |-> TRUE] ELSE DefaultSort
(* Three clicks on a header lead back to the default order, and the order  *)
(* that a click leads to is the one that is read back.                     *)
ASSUME SortReturns ==
  \A key \in {"hostname", "mac", "tx", "rx", "tcp_conns", "udp_conns"} :
    LET click[n \in 0..3] == IF n = 0 THEN DefaultSort ELSE NextSort(click[n - 1], key)
        stored(p) == [key |-> p.key, desc |-> p.desc, custom |-> IF p.custom THEN "yes" ELSE "no"]
    IN  /\ click[3] = DefaultSort
        /\ \A n \in 0..3 : LoadPrefs(stored(click[n])) = click[n]

----------------------------------------------------------------------------
(* Pages                                                                   *)
Paginate(total, page, size) ==
  LET count == Max({1, (total + size - 1) \div size})
      current == Max({1, Min({count, page})})
      start == (current - 1) * size IN
  [page |-> current, count |-> count, items |-> (start + 1)..Min({total, start + size})]
(* The connections of a client count their pages from zero                 *)
DetailPages(total, page, size) ==
  LET count == IF total = 0 THEN 1 ELSE (total + size - 1) \div size
      current == Min({Max({0, page}), count - 1}) IN
  [page |-> current, count |-> count, items |-> (current * size + 1)..Min({total, (current + 1) * size})]
TurnPage(page, count, key) ==
  CASE key = "first" -> 1 [] key = "prev" -> Max({1, page - 1})
    [] key = "next" -> Min({count, page + 1}) [] OTHER -> count

(* Each item is on one page, whatever page was asked for                   *)
ASSUME PagesCover ==
  \A total \in 0..7, size \in 1..3 :
    LET n == Paginate(total, 1, size).count IN
    /\ \A i \in 1..total : Cardinality({p \in 1..n : i \in Paginate(total, p, size).items}) = 1
    /\ \A p \in 0..9 : Paginate(total, p, size).page \in 1..n
    /\ \A p \in 1..n : DetailPages(total, p - 1, size).items = Paginate(total, p, size).items
    /\ \A p \in 1..n, key \in {"first", "prev", "next", "last"} : TurnPage(p, n, key) \in 1..n
    /\ \A p \in 1..n : TurnPage(TurnPage(p, n, "next"), n, "prev") \in {p, n - 1, 1}

----------------------------------------------------------------------------
(* Addresses of IPv6 that are hidden: a prefix is compared word by word,   *)
(* the last one under a mask.  Words have W bits here instead of 16.       *)
SharesPrefix(words, range, W) ==
  LET whole == range.bits \div W
      rest == range.bits % W IN
  /\ \A i \in 1..whole : words[i] = range.words[i]
  /\ rest > 0 => words[whole + 1] \div 2^(W - rest) = range.words[whole + 1] \div 2^(W - rest)
AddressValue(words, W) == words[1] * 2^W + words[2]
ASSUME PrefixIsNumeric ==
  \A a, b \in [1..2 -> 0..3], bits \in 0..4 :
    SharesPrefix(a, [words |-> b, bits |-> bits], 2)
      <=> AddressValue(a, 2) \div 2^(4 - bits) = AddressValue(b, 2) \div 2^(4 - bits)
DisplayIpsForClient(ips, showIpv6, hidden) ==
  SelectSeq(ips, LAMBDA ip : ip \notin hidden /\ (showIpv6 \/ ip.v = 4))
(* IPv4 first, then link-local, then the others                            *)
IpDisplayRank(ip) == IF ip.v = 4 THEN 0 ELSE IF ip.local THEN 1 ELSE 2
(* Without IPv6 every address that is left to show ranks first; hiding     *)
(* more never shows more.                                                  *)
ASSUME HiddenStaysHidden ==
  LET ips == <<[v |-> 4, local |-> FALSE], [v |-> 6, local |-> TRUE], [v |-> 6, local |-> FALSE]>>
      Left(show, hidden) == ToSet(DisplayIpsForClient(ips, show, hidden))
  IN  \A hidden \in SUBSET ToSet(ips) :
        /\ \A ip \in Left(FALSE, hidden) : IpDisplayRank(ip) = 0
        /\ \A more \in SUBSET ToSet(ips), show \in BOOLEAN :
              hidden \subseteq more => Left(show, more) \subseteq Left(show, hidden)

----------------------------------------------------------------------------
(* A row of the table of clients.  An NSS collector on another platform is *)
(* called unsupported.                                                     *)
CriticalWarnings == {"map_read_failed", "tc_conflict"}
SplitClientWarnings(warnings, global) ==
  [info |-> warnings \cap {"conntrack_connection_only"},
   specific |-> warnings \ ({"conntrack_connection_only"} \cup global)]
ClientRow(c, status, sample, cfg) ==
  LET w == SplitClientWarnings(c.warnings, status.warnings)
      nss == c.mode \in {"nss_ecm_node", "nss_ecm_bpf"} IN
  [name |-> IF c.hostname # Missing THEN c.hostname ELSE IF c.ips # <<>> THEN Head(c.ips) ELSE c.mac,
   tx |-> IF status.routed /\ ~c.routed THEN 0 ELSE AsNumber(c.tx),
   rx |-> IF status.routed /\ ~c.routed THEN 0 ELSE AsNumber(c.rx),
   idle |-> ~IsActiveClient(c, sample, cfg),
   mode |-> IF ~status.nss /\ nss THEN "unsupported" ELSE c.mode,
   label |-> IF w.specific = {} THEN "none"
             ELSE IF w.specific \cap CriticalWarnings # {} THEN "danger" ELSE "warning"]
RowClients ==
  [id : {1}, hostname : {Missing, 7}, ips : {<<>>, <<8>>}, mac : {9}, tx : {Missing, 0, 5}, rx : {0}, seen : {0, 2},
   mode : {"bpf", "nss_ecm_bpf"}, routed : BOOLEAN,
   warnings : SUBSET {"tc_conflict", "conntrack_connection_only", "slow"}]
(* A warning that the whole page shows is not repeated at every client; a  *)
(* row always has a name; a client that carries nothing is idle.           *)
ASSUME RowsAreReadable ==
  \A c \in RowClients, global \in {{}, {"tc_conflict"}}, routed, nss \in BOOLEAN :
    LET cfg == ActiveConfig([window |-> 10, min |-> 1])
        row == ClientRow(c, [warnings |-> global, routed |-> routed, nss |-> nss], LatestSample({[sample |-> 2]}), cfg)
    IN  /\ row.name # Missing
        /\ row.label = "danger" => "tc_conflict" \in c.warnings \ global
        /\ c.warnings \subseteq global \cup {"conntrack_connection_only"} => row.label = "none"
        /\ AsNumber(c.tx) + c.rx = 0 => row.idle /\ row.tx + row.rx = 0
        /\ row.mode = "unsupported" => ~nss
(* reconcileClientRows: the rows that stay keep their element              *)
ReconcileClientRows(old, rows) ==
  [i \in DOMAIN rows |->
     [key |-> rows[i], kept |-> \E j \in DOMAIN old : old[j] = rows[i]]]
(* A second answer with the same clients builds no element anew.           *)
ASSUME RowsAreKept ==
  \A rows \in {<<>>, <<1>>, <<1, 2>>, <<2, 1>>} :
    /\ \A i \in DOMAIN rows : ReconcileClientRows(Reverse(rows), rows)[i].kept
    /\ \A i \in DOMAIN rows : ReconcileClientRows(<<2>>, rows)[i].kept <=> rows[i] = 2
EmptyClientText(pending, filtered, failed, retained) ==
  CASE pending -> "waiting" [] ~pending /\ filtered -> "no match"
    [] ~pending /\ ~filtered /\ failed -> (IF retained THEN "kept" ELSE "unavailable")
    [] OTHER -> "empty"
(* "Empty" is only said of an answer that came and was not filtered        *)
ASSUME EmptyIsEmpty ==
  \A pending, filtered, failed, retained \in BOOLEAN :
    EmptyClientText(pending, filtered, failed, retained) = "empty" <=> TRUE \notin {pending, filtered, failed}
(* An interface of the LAN carries what the clients send as what it        *)
(* receives, and only those are compared with the clients                  *)
InterfaceRow(i, clients) ==
  LET lan == i.role = "lan"
      mine == {c \in clients : c.interface = i.name} IN
  [up |-> IF lan THEN i.rx ELSE i.tx, down |-> IF lan THEN i.tx ELSE i.rx,
   clients |-> IF lan THEN MapThenSumSet(LAMBDA c : c.tx, mine) ELSE Missing]
CoverageHint(coverage) ==
  /\ \/ coverage.quality = "ok"
     \/ coverage.quality = "low_traffic" /\ (coverage.tx # Missing \/ coverage.rx # Missing)
  /\ (coverage.tx # Missing /\ coverage.tx < 85) \/ (coverage.rx # Missing /\ coverage.rx < 85)
(* What the clients of a LAN interface send together is compared with what *)
(* the interface says is going up, and missing coverage is never hinted at.*)
ASSUME DirectionsAgree ==
  /\ \A role \in {"lan", "wan", "observe"}, a, b \in 0..2 :
       LET clients == {[id |-> 1, interface |-> 1, tx |-> a], [id |-> 2, interface |-> 1, tx |-> b],
                       [id |-> 3, interface |-> 2, tx |-> 9]}
           row == InterfaceRow([name |-> 1, role |-> role, rx |-> a + b, tx |-> 7], clients)
       IN  IF role = "lan" THEN row.clients = row.up ELSE row.clients = Missing /\ row.up = 7
  /\ \A q \in {"ok", "low_traffic", "idle"} : ~CoverageHint([quality |-> q, tx |-> Missing, rx |-> Missing])

----------------------------------------------------------------------------
(* The connections of one client, grouped by the remote address            *)
Filtered(conns, wanted, match) ==
  {c \in conns : (wanted \in {"tcp", "udp"} => c.protocol = wanted) /\ c.remote \in match}
GroupsForResponse(conns, wanted, match) ==
  LET kept == Filtered(conns, wanted, match) IN
  {[remote |-> r, connections |-> {c \in kept : c.remote = r},
    ports |-> {c.port : c \in {d \in kept : d.remote = r}} \ {Missing},
    protocols |-> {c.protocol : c \in {d \in kept : d.remote = r}}] :
     r \in {c.remote : c \in kept}}
StateLabel(states) ==
  IF states = {} THEN "-" ELSE IF states = {"established"} THEN "established"
  ELSE IF states = {"assured"} THEN "active" ELSE "mixed"
(* A group without a port comes last                                       *)
GroupBefore(a, b, desc) ==
  LET port(g) == IF g.ports = {} THEN Missing ELSE Min(g.ports) IN
  IF (port(a) = Missing) # (port(b) = Missing) THEN port(b) = Missing
  ELSE IF port(a) # port(b) THEN (IF desc THEN port(a) > port(b) ELSE port(a) < port(b))
  ELSE a.remote < b.remote
SampleConnections ==
  [id : 1..2, remote : 1..2, protocol : {"tcp", "udp"}, port : {Missing, 1, 2}]
ASSUME GroupsPartition ==
  \A conns \in {cs \in SUBSET SampleConnections : Cardinality(cs) <= 3} :
    LET groups == GroupsForResponse(conns, "all", 1..2) IN
    /\ UNION {g.connections : g \in groups} = conns
    /\ \A g, k \in groups : g = k \/ (GroupBefore(g, k, TRUE) # GroupBefore(k, g, TRUE))

(* The page of one client: what an answer lets it show.  Rates come from   *)
(* another source than the connections and are shown without them.         *)
DetailView(response) ==
  LET found == response.client /\ "client_not_found" \notin response.warnings
      usable == response.available /\ found IN
  [usable |-> usable, rates |-> found,
   state |-> IF usable THEN (IF response.total > 0 THEN "active" ELSE "idle")
             ELSE IF ~response.available THEN "unavailable" ELSE "pending"]
EmptyDetailText(response, view) ==
  CASE ~view.rates -> "not found"
    [] view.rates /\ ~response.available ->
         (IF "conntrack_snapshot_incomplete" \in response.warnings
            THEN "incomplete" ELSE "unavailable")
    [] OTHER -> IF response.total = 0 THEN "no connections" ELSE "no match"
(* An opened group that is no longer in the answer is closed               *)
KeepExpanded(expanded, groups) == expanded \cap {g.remote : g \in groups}
BuildGroupRows(group, expanded, threshold) ==
  [remote |-> group.remote, open |-> group.remote \in expanded,
   built |-> group.remote \in expanded \/ Cardinality(group.connections) <= threshold]
(* An open group has its rows, and no group stays open that is not there;  *)
(* a group is only called established when each of its states is.          *)
ASSUME OpenIsBuilt ==
  \A expanded \in SUBSET (1..3), conns \in {cs \in SUBSET SampleConnections : Cardinality(cs) <= 2} :
    LET groups == GroupsForResponse(conns, "tcp", 1..2)
        left == KeepExpanded(expanded, groups)
        rows == {BuildGroupRows(g, left, 1) : g \in groups}
    IN  /\ {r.remote : r \in {q \in rows : q.open}} = left
        /\ \A r \in rows : r.open => r.built
        /\ \A g \in groups : g.protocols = {"tcp"}
ASSUME MixedIsMixed ==
  \A states \in SUBSET {"established", "assured", "syn_sent"} :
    (StateLabel(states) = "mixed") <=> states \notin {{}, {"established"}, {"assured"}}
(* The text of an empty list blames the answer exactly when the answer     *)
(* cannot be used, and "no connections" is only said of an idle client.    *)
ASSUME EmptyTextIsTrue ==
  \A client, available \in BOOLEAN, total \in 0..1,
     warnings \in SUBSET {"client_not_found", "conntrack_snapshot_incomplete"} :
    LET response == [client |-> client, available |-> available, total |-> total, warnings |-> warnings]
        view == DetailView(response)
        text == EmptyDetailText(response, view)
    IN  /\ view.usable <=> text \notin {"not found", "incomplete", "unavailable"}
        /\ text = "no connections" => view.state = "idle"
        /\ text = "no match" => view.state = "active"
=============================================================================
