--------------------------------- MODULE Routes ---------------------------------
(***************************************************************************)
(* How an interface finds its routes in one address family                 *)
(* (nic/route/route_utils.py, for Interface.do_start of nic/interface.py): *)
(* STUN servers are asked, all at once, how they see a NIC address; the    *)
(* first answer that enough of them give counts, or at the timeout the one *)
(* most have given.  A route has NIC addresses and the external address    *)
(* they are seen as.                                                       *)
(*                                                                         *)
(* The addresses are looked up concurrently and without regard to each     *)
(* other: here one after the other.                                        *)
(***************************************************************************)
EXTENDS Lists, SequencesExt

CONSTANTS Private, LinkLocal,  \* addresses of NICs, as numbers
          External,            \* public addresses
          Nics,                \* lists of NIC addresses, each in it once (a bound)
          Foreign,             \* an address of another interface
          StunClients,         \* max_agree: how many servers are asked
          MinAgree,            \* min_agree
          MaxWrong             \* servers that give a wrong address (a bound)

ASSUME RoutesAssumption ==
  /\ Private \cup LinkLocal \cup External \cup {Foreign} \subseteq Nat \ {0}
  /\ Private \cap External = {} /\ LinkLocal \cap (Private \cup External) = {}
  /\ Foreign \notin Private \cup LinkLocal \cup External
  /\ IsFiniteSet(External)
  /\ \A ns \in Nics : IsInjective(ns) /\ ns \in Seq(Private \cup LinkLocal \cup External)
  /\ StunClients \in Nat /\ MinAgree \in Nat \ {0} /\ MaxWrong \in Nat

NoIp == 0
NoRoute == <<>>

VARIABLES
  nics,     \* nic_iprs
  default,  \* af_default_nic_ip, or NoIp without enable_default
  wan,      \* the external address that an address really has
  counts,   \* the answers of the lookup that runs: how often there is each
  lookedUp,  \* the lookups that have ended: [src, ext], or NoRoute
  guessed,  \* a lookup ended by its timeout
  routes    \* {} until there are routes, then {the list}

routevars == <<nics, default, wan, counts, lookedUp, guessed, routes>>

IsPublic(a) == a \in External
Privates == Keep(nics, Private)

\* The lookups: of each public address, of the default route, and of the first
\* private address.
Lookups ==
  Keep(nics, External) \o (IF default = NoIp THEN <<>> ELSE <<default>>)
    \o (IF Privates = <<>> THEN <<>> ELSE <<Privates[1]>>)

Unanswered == [v \in External \cup {NoIp} |-> 0]
Answered == FoldFunction(+, 0, counts)

\* The private addresses have one external address; a public one may be used by
\* a NIC that it does not belong to.  The default route of an interface starts
\* at one of its addresses, or (multihoming) at one of another interface.
RoutesInit ==
  /\ nics \in Nics
  /\ default \in {NoIp, Foreign} \cup (Range(nics) \ LinkLocal)
  /\ \E behind \in External :
       wan \in {w \in [Private \cup External \cup {Foreign} -> External] :
                  /\ \A a \in Private \cup {Foreign} : w[a] = behind
                  /\ \A a \in External : w[a] \in {a, behind}}
  /\ counts = Unanswered /\ lookedUp = <<>> /\ guessed = FALSE /\ routes = {}

Running == routes = {} /\ Len(lookedUp) < Len(Lookups)
Src == Lookups[Len(lookedUp) + 1]

Ended(v) ==
  /\ lookedUp' = Append(lookedUp, IF v = NoIp THEN NoRoute ELSE [src |-> Src, ext |-> v])
  /\ counts' = Unanswered

WrongAnswers == FoldFunctionOnSet(+, 0, counts, External \ {wan[Src]})

\* A bug: one answer less will do.
AgreedEarly(n) == n + 1 >= MinAgree

Agreed(n) == n >= MinAgree

\* concurrent_first_agree_or_best: an answer, or the failure of a request, which
\* counts as one.  Answers that all came without enough of them agreeing are
\* worth nothing.
StunAnswer(v) ==
  /\ Running /\ Answered < StunClients
  /\ v \in {NoIp, wan[Src]} \/ WrongAnswers < MaxWrong
  /\ IF Agreed(counts[v] + 1) THEN Ended(v)
     ELSE IF Answered + 1 = StunClients THEN Ended(NoIp)
     ELSE counts' = [counts EXCEPT ![v] = @ + 1] /\ UNCHANGED lookedUp
  /\ UNCHANGED <<nics, default, wan, guessed, routes>>

\* The timeout: the answer that came most often (of several the first).
StunTimeout ==
  /\ Running
  /\ \E best \in {v \in DOMAIN counts : \A u \in DOMAIN counts : counts[u] <= counts[v]} :
       Ended(IF Answered = 0 THEN NoIp ELSE best)
  /\ guessed' = TRUE
  /\ UNCHANGED <<nics, default, wan, routes>>

\* A NIC address that cannot be bound.
BindFails ==
  /\ Running /\ counts = Unanswered /\ Ended(NoIp)
  /\ UNCHANGED <<nics, default, wan, guessed, routes>>

-----------------------------------------------------------------------------
(* What is made of the answers. *)

Found == Keep(lookedUp, Range(lookedUp) \ {NoRoute})

\* get_route_by_src: the first external address of a source, {} if it has none.
ExtOf(src) ==
  LET of == Keep(Found, {r \in Range(Found) : r.src = src}) IN
  IF of = <<>> THEN {} ELSE {of[1].ext}

\* A default address that is not the interface's is no route of its.
DefaultExt == IF default \in Range(nics) THEN ExtOf(default) ELSE {}

\* exclude_routes_by_src.
OwnRoutes ==
  LET own == {r \in Range(Found) : r.src # default /\ (Privates = <<>> \/ r.src # Privates[1])}
      listed == Keep(Found, own) IN
  [k \in 1 .. Len(listed) |-> [nics |-> <<listed[k].src>>, ext |-> listed[k].ext]]

\* All private addresses are one route, seen as the default is.
PrivateRoutes ==
  LET ext == IF DefaultExt # {} THEN DefaultExt ELSE ExtOf(Privates[1]) IN
  IF Privates = <<>> \/ ext = {} THEN <<>>
  ELSE <<[nics |-> Privates, ext |-> CHOOSE e \in ext : TRUE]>>

\* sort_routes: the list in the order p is sorted by external addresses, and
\* stably so.
SortRoutes(rs, p) ==
  \A i, j \in DOMAIN rs : i < j =>
    \/ rs[p[i]].ext < rs[p[j]].ext
    \/ rs[p[i]].ext = rs[p[j]].ext /\ p[i] < p[j]

\* The end of get_routes_with_res, and of do_start: the default route is used
\* only if there is no other.
SetRoutes ==
  LET found == OwnRoutes \o PrivateRoutes IN
  /\ routes = {} /\ Len(lookedUp) = Len(Lookups)
  /\ \E p \in Bijection(DOMAIN found, DOMAIN found) :
       /\ SortRoutes(found, p)
       /\ routes' =
            {IF found # <<>> THEN [k \in DOMAIN found |-> found[p[k]]]
             ELSE IF DefaultExt = {} THEN <<>>
             ELSE <<[nics |-> <<default>>, ext |-> CHOOSE e \in DefaultExt : TRUE]>>}
  /\ UNCHANGED <<nics, default, wan, counts, lookedUp, guessed>>

RoutesNext ==
  \/ \E v \in External \cup {NoIp} : StunAnswer(v)
  \/ StunTimeout \/ BindFails \/ SetRoutes

RoutesSpec == RoutesInit /\ [][RoutesNext]_routevars

-----------------------------------------------------------------------------
(* Properties. *)

\* With fewer wrong servers than have to agree, and no guess at a timeout, a
\* route has the external address that its NIC addresses really have (the
\* private ones take that of the default route, if it starts at a public one),
\* and no address has two routes.  A public address that was seen has one,
\* unless it is the default's and there are others.
RoutesAreTrue ==
  \A list \in routes : ~guessed /\ MaxWrong < MinAgree =>
    /\ \A k \in DOMAIN list : \A a \in Range(list[k].nics) :
         /\ list[k].ext = wan[a] \/ (a \in Private /\ IsPublic(default))
         /\ \A j \in DOMAIN list \ {k} : a \notin Range(list[j].nics)
    /\ \A r \in Range(Found) :
         IsPublic(r.src) /\ r.src \in Range(nics) /\ (r.src = default => list = <<>>) =>
           \E k \in DOMAIN list : r.src \in Range(list[k].nics)
===============================================================================
