--------------------------- MODULE Routing_proofs ----------------------------
(***************************************************************************)
(* Proofs about the three routers, for any sets of sessions, paths and     *)
(* methods and any number of routes: which route answers, and what the     *)
(* answer tells of the handler; and about what a handler gets of any       *)
(* request: its form, its header fields and its parameters.                *)
(*                                                                         *)
(* The vectors are the calls of add_route for their router, in order, and  *)
(* the map has the first call for each path.  Sessions ask only after the  *)
(* last call, so what they find stays as they have found it.               *)
(*                                                                         *)
(* What a handler gets is made by loops.  Each is a recursive function     *)
(* that exists (LoopExists), and of whose values what its body keeps is    *)
(* true (UpTo).                                                            *)
(***************************************************************************)
EXTENDS Routing, Requests, SequenceTheorems, FiniteSetTheorems, TLAPS

WellFounded == INSTANCE WellFoundedInduction

Routes ==
  [router : HttpRouters \cup {"websocket"}, method : Methods \cup {"any"},
   path : Paths, call : Nat \ {0}]

(* A route that is the one made by its call of add_route.                  *)
IsAdded(x) == x.call \in 1 .. Len(added) /\ added[x.call] = x

AddedInOrder ==
  /\ added \in Seq(Routes)
  /\ \A k \in 1 .. Len(added) : added[k].call = k

VectorsHold ==
  /\ m_routes \in [HttpRouters -> Seq(Routes)]
  /\ \A r \in HttpRouters :
       /\ \A i \in 1 .. Len(m_routes[r]) : IsAdded(m_routes[r][i]) /\ m_routes[r][i].router = r
       /\ \A i, j \in 1 .. Len(m_routes[r]) : i < j => m_routes[r][i].call < m_routes[r][j].call
       /\ \A k \in 1 .. Len(added) :
            added[k].router = r => \E i \in 1 .. Len(m_routes[r]) : m_routes[r][i] = added[k]

MapHoldsFirst ==
  /\ \A p \in DOMAIN ws_routes :
       /\ ws_routes[p] \in Routes /\ IsAdded(ws_routes[p])
       /\ ws_routes[p].router = "websocket" /\ ws_routes[p].path = p
  /\ \A k \in 1 .. Len(added) :
       added[k].router = "websocket" =>
         /\ added[k].path \in DOMAIN ws_routes
         /\ ws_routes[added[k].path].call <= k

TablesInv == AddedInOrder /\ VectorsHold /\ MapHoldsFirst

SessionsType ==
  /\ asked \in [Sessions -> HttpRequests \cup Messages \cup {NoRequest}]
  /\ route = [s \in Sessions |-> route[s]]
  /\ given = [s \in Sessions |-> given[s]]
  /\ fate = [s \in Sessions |-> fate[s]]
  /\ answer = [s \in Sessions |-> answer[s]]

IsHttp(s) == asked[s].router \in HttpRouters

(* What the handler was given is what the request or the message has.      *)
GivenFromBody(s) ==
  given[s] = IF route[s] = NoRoute THEN None
             ELSE IF IsHttp(s) THEN DecodeJson(asked[s].body) ELSE FromMessage(asked[s].body)

(* The answer of a session that has come to no handler.                    *)
Rejected(s) ==
  /\ fate[s] = None
  /\ answer[s] # None =>
       /\ Meant(s) = {}
       /\ answer[s] = IF ~ IsHttp(s) THEN Nullptr
                      ELSE IF asked[s].path = "invalid" THEN InternalServerError("e.what()")
                      ELSE BadRequest("404 Bad Request")

(* The answer of one that has.                                             *)
Handled(s) ==
  /\ Meant(s) # {} /\ route[s] = added[Min(Meant(s))]
  /\ IF answer[s] = None THEN fate[s] = None
     ELSE IF IsHttp(s) THEN fate[s] \in Ends /\ answer[s] = Returned(fate[s])
     ELSE /\ fate[s] \in {WsHelloJson(given[s]), Nullptr, Throws}
          /\ answer[s] = IF fate[s] = Throws THEN Nullptr ELSE fate[s]

SessionInv(s) ==
  /\ asked[s] = NoRequest => route[s] = NoRoute /\ answer[s] = None
  /\ ~ running => asked[s] = NoRequest
  /\ GivenFromBody(s)
  /\ IF route[s] = NoRoute THEN Rejected(s) ELSE Handled(s)

IInv ==
  /\ TablesInv
  /\ SessionsType
  /\ \A s \in Sessions : SessionInv(s)

-----------------------------------------------------------------------------
(* The least element of a set of numbers.                                  *)
LEMMA MinIsLeast ==
  ASSUME NEW S \in SUBSET Nat, S # {}
  PROVE  /\ Min(S) \in S
         /\ \A x \in S : Min(S) <= x
         /\ \A m \in S : (\A x \in S : m <= x) => Min(S) = m
<1> DEFINE below == {ss \in Nat \X Nat : ss[1] < ss[2]}
<1>1. WellFounded!IsWellFoundedOn(below, Nat)
  BY WellFounded!NatLessThanWellFounded DEF WellFounded!OpToRel
<1> HIDE DEF below
<1>2. PICK i \in S : \A j \in S : ~ (<<j, i>> \in below)
  BY <1>1, WellFounded!WFMin
<1>3. ASSUME NEW j \in S PROVE i <= j
  <2>1. i \in Nat /\ j \in Nat
    OBVIOUS
  <2>2. j < i => <<j, i>> \in below
    BY <2>1 DEF below
  <2> QED
    BY <1>2, <2>1, <2>2
<1>4. Min(S) \in S /\ \A x \in S : Min(S) <= x
  BY <1>3 DEF Min
<1>5. ASSUME NEW m \in S, \A x \in S : m <= x PROVE Min(S) = m
  <2>1. Min(S) <= m /\ m <= Min(S) /\ Min(S) \in Nat /\ m \in Nat
    BY <1>4, <1>5
  <2> QED
    BY <2>1
<1> QED
  BY <1>4, <1>5

(* What is asked of an HTTP router is a request, and of the other one a    *)
(* message.                                                                *)
LEMMA RequestShape ==
  ASSUME NEW req \in HttpRequests \cup Messages \cup {NoRequest}
  PROVE  /\ req.router \in HttpRouters => req \in HttpRequests /\ req # NoRequest
         /\ req.router = "websocket" => req \in Messages /\ req # NoRequest
         /\ req.router \in HttpRouters \cup {"websocket", "none"}
         /\ req.router = "none" => req = NoRequest
         /\ NoRequest.router \notin HttpRouters \cup {"websocket"}
BY DEF HttpRequests, Messages, NoRequest, HttpRouters

(* The routes meant by a session, as numbers.                              *)
LEMMA MeantShape ==
  ASSUME AddedInOrder, NEW s \in Sessions
  PROVE  /\ Len(added) \in Nat /\ DOMAIN added = 1 .. Len(added)
         /\ \A k \in 1 .. Len(added) : added[k] \in Routes
         /\ Meant(s) \in SUBSET Nat
         /\ Meant(s) \subseteq 1 .. Len(added)
<1>1. Len(added) \in Nat /\ DOMAIN added = 1 .. Len(added)
  BY LenProperties DEF AddedInOrder
<1>2. \A k \in 1 .. Len(added) : added[k] \in Routes
  BY ElementOfSeq DEF AddedInOrder
<1> QED
  BY <1>1, <1>2 DEF Meant

(* find_if over the vector comes to the first route that is meant.         *)
LEMMA VectorFindsFirst ==
  ASSUME TablesInv, NEW s \in Sessions, NEW r \in HttpRouters,
         asked[s].router = r
  PROVE  /\ Matching(r, asked[s]) = {} => Meant(s) = {}
         /\ Matching(r, asked[s]) # {} =>
              /\ Meant(s) # {}
              /\ RouteHandler(r, asked[s]) = added[Min(Meant(s))]
              /\ RouteHandler(r, asked[s]) \in Routes
<1> DEFINE list == m_routes[r]
           found == Matching(r, asked[s])
<1>1. /\ list \in Seq(Routes)
      /\ Len(list) \in Nat /\ DOMAIN list = 1 .. Len(list)
      /\ \A i \in 1 .. Len(list) : list[i] \in Routes
  BY LenProperties, ElementOfSeq DEF TablesInv, VectorsHold
<1>2. found \subseteq 1 .. Len(list) /\ found \in SUBSET Nat
  BY <1>1 DEF Matching
<1>3. ASSUME NEW k \in Meant(s)
      PROVE  \E i \in found : list[i] = added[k]
  <2>1. k \in 1 .. Len(added) /\ added[k].router = r
    BY MeantShape DEF Meant, TablesInv
  <2>2. PICK i \in 1 .. Len(list) : list[i] = added[k]
    BY <2>1 DEF TablesInv, VectorsHold
  <2>3. i \in found
    BY <1>1, <2>1, <2>2 DEF Matching, Meant
  <2> QED
    BY <2>2, <2>3
<1>4. ASSUME NEW i \in found
      PROVE  list[i].call \in Meant(s) /\ added[list[i].call] = list[i]
  <2>1. /\ list[i].call \in 1 .. Len(added) /\ added[list[i].call] = list[i]
        /\ list[i].router = r
    BY <1>2 DEF TablesInv, VectorsHold, IsAdded
  <2>2. list[i].path = asked[s].path /\ list[i].method = asked[s].method
    BY DEF Matching
  <2> QED
    BY <2>1, <2>2, MeantShape DEF Meant, TablesInv
<1>5. ASSUME found # {}
      PROVE  /\ Meant(s) # {}
             /\ RouteHandler(r, asked[s]) = added[Min(Meant(s))]
             /\ RouteHandler(r, asked[s]) \in Routes
  <2>1. Min(found) \in found /\ \A i \in found : Min(found) <= i
    BY <1>2, <1>5, MinIsLeast
  <2> DEFINE first == list[Min(found)]
  <2>2. first.call \in Meant(s) /\ added[first.call] = first
    BY <1>4, <2>1
  <2>3. ASSUME NEW k \in Meant(s) PROVE first.call <= k
    <3>1. PICK i \in found : list[i] = added[k]
      BY <1>3
    <3>2. k \in 1 .. Len(added) /\ added[k].call = k
      BY MeantShape DEF TablesInv, AddedInOrder
    <3>3. /\ i \in 1 .. Len(list) /\ Min(found) \in 1 .. Len(list)
          /\ Min(found) = i \/ Min(found) < i
      BY <1>1, <1>2, <2>1
    <3>4. list[i].call = k /\ first.call \in Nat
      BY <1>1, <3>1, <3>2, <3>3 DEF Routes
    <3>5. Min(found) < i => first.call < list[i].call
      BY <3>3 DEF TablesInv, VectorsHold
    <3> QED
      BY <3>2, <3>3, <3>4, <3>5
  <2>4. Min(Meant(s)) = first.call
    BY <2>2, <2>3, MinIsLeast, MeantShape DEF TablesInv
  <2>5. RouteHandler(r, asked[s]) = first
    BY DEF RouteHandler
  <2>6. first \in Routes
    BY <1>1, <1>2, <2>1
  <2> QED
    BY <2>2, <2>4, <2>5, <2>6
<1> QED
  BY <1>3, <1>5

(* So does the map.                                                        *)
LEMMA MapFindsFirst ==
  ASSUME TablesInv, NEW s \in Sessions, asked[s].router = "websocket"
  PROVE  /\ asked[s].path \notin DOMAIN ws_routes => Meant(s) = {}
         /\ asked[s].path \in DOMAIN ws_routes =>
              /\ Meant(s) # {}
              /\ ws_routes[asked[s].path] = added[Min(Meant(s))]
              /\ ws_routes[asked[s].path] \in Routes
<1>1. ASSUME NEW k \in Meant(s)
      PROVE  /\ asked[s].path \in DOMAIN ws_routes
             /\ ws_routes[asked[s].path].call <= k
  <2>1. k \in 1 .. Len(added) /\ added[k].router = "websocket" /\ added[k].path = asked[s].path
    BY MeantShape DEF Meant, TablesInv
  <2> QED
    BY <2>1 DEF TablesInv, MapHoldsFirst
<1>2. ASSUME asked[s].path \in DOMAIN ws_routes
      PROVE  /\ Meant(s) # {}
             /\ ws_routes[asked[s].path] = added[Min(Meant(s))]
             /\ ws_routes[asked[s].path] \in Routes
  <2> DEFINE first == ws_routes[asked[s].path]
  <2>1. /\ first \in Routes
        /\ first.call \in 1 .. Len(added) /\ added[first.call] = first
        /\ first.router = "websocket" /\ first.path = asked[s].path
    BY <1>2 DEF TablesInv, MapHoldsFirst, IsAdded
  <2>2. first.call \in Meant(s)
    BY <2>1, MeantShape DEF Meant, TablesInv, HttpRouters
  <2>3. Min(Meant(s)) = first.call
    BY <1>1, <2>2, MinIsLeast, MeantShape DEF TablesInv
  <2> QED
    BY <2>1, <2>2, <2>3
<1> QED
  BY <1>1, <1>2

-----------------------------------------------------------------------------
(* The tables, as routes are added.                                        *)

LEMMA RouteAppended ==
  ASSUME NEW list \in Seq(Routes), NEW x \in Routes
  PROVE  /\ Append(list, x) \in Seq(Routes)
         /\ Len(list) \in Nat
         /\ Len(Append(list, x)) = Len(list) + 1
         /\ \A i \in 1 .. Len(list) : Append(list, x)[i] = list[i]
         /\ Append(list, x)[Len(list) + 1] = x
         /\ \A i \in 1 .. Len(Append(list, x)) : i \in 1 .. Len(list) \/ i = Len(list) + 1
<1>1. Len(list) \in Nat
  BY LenProperties
<1> QED
  BY <1>1, AppendProperties

(* A route is the one made by its call, after the step.                    *)
WillBeAdded(x) == x.call \in 1 .. Len(added') /\ added'[x.call] = x

(* The call of add_route is recorded.                                      *)
LEMMA AddedKeeps ==
  ASSUME AddedInOrder, NEW new \in Routes, new.call = Len(added) + 1,
         added' = Append(added, new)
  PROVE  /\ AddedInOrder'
         /\ Len(added) \in Nat
         /\ Len(added') = Len(added) + 1
         /\ added'[Len(added) + 1] = new
         /\ \A k \in 1 .. Len(added) : added'[k] = added[k]
         /\ \A k \in 1 .. Len(added') : k \in 1 .. Len(added) \/ k = Len(added) + 1
         /\ \A x : IsAdded(x) => WillBeAdded(x)
         /\ WillBeAdded(new)
<1>1. /\ added' \in Seq(Routes)
      /\ Len(added) \in Nat
      /\ Len(added') = Len(added) + 1
      /\ added'[Len(added) + 1] = new
      /\ \A k \in 1 .. Len(added) : added'[k] = added[k]
      /\ \A k \in 1 .. Len(added') : k \in 1 .. Len(added) \/ k = Len(added) + 1
  BY RouteAppended DEF AddedInOrder
<1>2. AddedInOrder'
  BY <1>1 DEF AddedInOrder
<1>3. ASSUME NEW x, IsAdded(x) PROVE WillBeAdded(x)
  BY <1>1, <1>3 DEF IsAdded, WillBeAdded
<1>4. WillBeAdded(new)
  BY <1>1 DEF IsAdded, WillBeAdded
<1> QED
  BY <1>1, <1>2, <1>3, <1>4

LEMMA AddRouteKeeps ==
  ASSUME TablesInv, NEW r \in HttpRouters, NEW m \in Methods, NEW p \in Paths, AddRoute(r, m, p)
  PROVE  TablesInv'
<1> DEFINE new == NewRoute(r, m, p)
<1>1. /\ added' = Append(added, new)
      /\ m_routes' = [m_routes EXCEPT ![r] = Append(@, new)]
      /\ ws_routes' = ws_routes
  BY DEF AddRoute
<1>2. /\ new \in Routes
      /\ new.router = r /\ new.call = Len(added) + 1
      /\ new.router # "websocket"
  <2>1. Len(added) \in Nat
    BY LenProperties DEF TablesInv, AddedInOrder
  <2> QED
    BY <2>1 DEF NewRoute, Routes, HttpRouters
<1> HIDE DEF new
<1>3. /\ AddedInOrder'
      /\ Len(added) \in Nat
      /\ Len(added') = Len(added) + 1
      /\ added'[Len(added) + 1] = new
      /\ \A k \in 1 .. Len(added) : added'[k] = added[k]
      /\ \A k \in 1 .. Len(added') : k \in 1 .. Len(added) \/ k = Len(added) + 1
      /\ \A x : IsAdded(x) => WillBeAdded(x)
      /\ WillBeAdded(new)
  BY <1>1, <1>2, AddedKeeps DEF TablesInv
<1>4. MapHoldsFirst'
  BY <1>1, <1>2, <1>3 DEF TablesInv, MapHoldsFirst, IsAdded, WillBeAdded
<1>5. /\ m_routes[r] \in Seq(Routes)
      /\ m_routes'[r] = Append(m_routes[r], new)
      /\ \A x \in HttpRouters \ {r} : m_routes'[x] = m_routes[x]
  BY <1>1 DEF TablesInv, VectorsHold
<1>6. /\ m_routes'[r] \in Seq(Routes)
      /\ Len(m_routes[r]) \in Nat
      /\ Len(m_routes'[r]) = Len(m_routes[r]) + 1
      /\ \A i \in 1 .. Len(m_routes[r]) : m_routes'[r][i] = m_routes[r][i]
      /\ m_routes'[r][Len(m_routes[r]) + 1] = new
      /\ \A i \in 1 .. Len(m_routes'[r]) : i \in 1 .. Len(m_routes[r]) \/ i = Len(m_routes[r]) + 1
  BY <1>2, <1>5, RouteAppended
<1>7. m_routes' \in [HttpRouters -> Seq(Routes)]
  BY <1>1, <1>5, <1>6 DEF TablesInv, VectorsHold
<1>8. ASSUME NEW x \in HttpRouters, NEW i \in 1 .. Len(m_routes'[x])
      PROVE  WillBeAdded(m_routes'[x][i]) /\ m_routes'[x][i].router = x
  <2>1. CASE x = r
    <3>1. \A l \in 1 .. Len(m_routes[r]) : IsAdded(m_routes[r][l]) /\ m_routes[r][l].router = r
      BY DEF TablesInv, VectorsHold
    <3>2. CASE i \in 1 .. Len(m_routes[r])
      BY <1>3, <1>6, <2>1, <3>1, <3>2 DEF IsAdded, WillBeAdded
    <3>3. CASE i = Len(m_routes[r]) + 1
      BY <1>2, <1>3, <1>6, <2>1, <3>3 DEF IsAdded, WillBeAdded
    <3> QED
      BY <1>6, <2>1, <3>2, <3>3
  <2>2. CASE x # r
    <3>1. m_routes'[x] = m_routes[x]
      BY <1>5, <2>2
    <3>2. IsAdded(m_routes[x][i]) /\ m_routes[x][i].router = x
      BY <3>1 DEF TablesInv, VectorsHold
    <3> QED
      BY <1>3, <3>1, <3>2
  <2> QED
    BY <2>1, <2>2
<1>9. ASSUME NEW x \in HttpRouters,
             NEW i \in 1 .. Len(m_routes'[x]), NEW j \in 1 .. Len(m_routes'[x]),
             i < j
      PROVE  m_routes'[x][i].call < m_routes'[x][j].call
  <2>1. CASE x = r
    <3>1. i \in 1 .. Len(m_routes[r])
      BY <1>6, <1>9, <2>1
    <3>2. m_routes[r][i].call \in 1 .. Len(added)
      BY <3>1 DEF TablesInv, VectorsHold, IsAdded, WillBeAdded
    <3>3. CASE j \in 1 .. Len(m_routes[r])
      <4>1. m_routes[r][i].call < m_routes[r][j].call
        BY <1>9, <3>1, <3>3 DEF TablesInv, VectorsHold
      <4> QED
        BY <1>6, <2>1, <3>1, <3>3, <4>1
    <3>4. CASE j = Len(m_routes[r]) + 1
      <4>1. m_routes'[x][i] = m_routes[r][i] /\ m_routes'[x][j] = new
        BY <1>6, <2>1, <3>1, <3>4
      <4>2. m_routes[r][i].call < new.call
        BY <1>2, <1>3, <3>2
      <4> QED
        BY <4>1, <4>2
    <3> QED
      BY <1>6, <2>1, <3>3, <3>4
  <2>2. CASE x # r
    BY <1>5, <1>9, <2>2 DEF TablesInv, VectorsHold
  <2> QED
    BY <2>1, <2>2
<1>10. ASSUME NEW x \in HttpRouters, NEW k \in 1 .. Len(added'), added'[k].router = x
       PROVE  \E i \in 1 .. Len(m_routes'[x]) : m_routes'[x][i] = added'[k]
  <2>1. CASE k \in 1 .. Len(added)
    <3>1. PICK i \in 1 .. Len(m_routes[x]) : m_routes[x][i] = added[k]
      <4>1. added[k].router = x
        BY <1>3, <1>10, <2>1
      <4> QED
        BY <2>1, <4>1 DEF TablesInv, VectorsHold
    <3>2. i \in 1 .. Len(m_routes'[x]) /\ m_routes'[x][i] = m_routes[x][i]
      <4>1. CASE x = r
        BY <1>6, <4>1
      <4>2. CASE x # r
        BY <1>5, <4>2
      <4> QED
        BY <4>1, <4>2
    <3> QED
      BY <1>3, <2>1, <3>1, <3>2
  <2>2. CASE k = Len(added) + 1
    <3>1. x = r /\ added'[k] = new
      BY <1>2, <1>3, <1>10, <2>2
    <3>2. Len(m_routes[r]) + 1 \in 1 .. Len(m_routes'[r])
      BY <1>6
    <3> QED
      BY <1>6, <3>1, <3>2
  <2> QED
    BY <1>3, <2>1, <2>2
<1>11. VectorsHold'
  BY <1>7, <1>8, <1>9, <1>10 DEF VectorsHold, IsAdded, WillBeAdded
<1> QED
  BY <1>3, <1>4, <1>11 DEF TablesInv

LEMMA AddWsRouteKeeps ==
  ASSUME TablesInv, NEW p \in Paths, AddWsRoute(p)
  PROVE  TablesInv'
<1> DEFINE new == NewRoute("websocket", "any", p)
<1>1. /\ added' = Append(added, new)
      /\ ws_routes' = [q \in DOMAIN ws_routes \cup {p} |->
                         IF q \in DOMAIN ws_routes THEN ws_routes[q] ELSE new]
      /\ m_routes' = m_routes
  BY DEF AddWsRoute
<1>2. /\ new \in Routes
      /\ new.router = "websocket" /\ new.path = p /\ new.call = Len(added) + 1
      /\ new.router \notin HttpRouters
  <2>1. Len(added) \in Nat
    BY LenProperties DEF TablesInv, AddedInOrder
  <2> QED
    BY <2>1 DEF NewRoute, Routes, HttpRouters
<1> HIDE DEF new
<1>3. /\ AddedInOrder'
      /\ Len(added) \in Nat
      /\ Len(added') = Len(added) + 1
      /\ added'[Len(added) + 1] = new
      /\ \A k \in 1 .. Len(added) : added'[k] = added[k]
      /\ \A k \in 1 .. Len(added') : k \in 1 .. Len(added) \/ k = Len(added) + 1
      /\ \A x : IsAdded(x) => WillBeAdded(x)
      /\ WillBeAdded(new)
  BY <1>1, <1>2, AddedKeeps DEF TablesInv
<1>4. VectorsHold'
  <2>1. \A r \in HttpRouters : \A i \in 1 .. Len(m_routes[r]) :
          WillBeAdded(m_routes[r][i]) /\ m_routes[r][i].router = r
    BY <1>1, <1>3 DEF TablesInv, VectorsHold, IsAdded, WillBeAdded
  <2>2. \A r \in HttpRouters : \A k \in 1 .. Len(added') :
          added'[k].router = r => \E i \in 1 .. Len(m_routes[r]) : m_routes[r][i] = added'[k]
    <3>1. \A r \in HttpRouters : \A k \in 1 .. Len(added) :
            added[k].router = r => \E i \in 1 .. Len(m_routes[r]) : m_routes[r][i] = added[k]
      BY DEF TablesInv, VectorsHold
    <3> QED
      BY <1>2, <1>3, <3>1
  <2>3. /\ m_routes \in [HttpRouters -> Seq(Routes)]
        /\ \A r \in HttpRouters : \A i, j \in 1 .. Len(m_routes[r]) :
             i < j => m_routes[r][i].call < m_routes[r][j].call
    BY DEF TablesInv, VectorsHold
  <2> QED
    BY <1>1, <2>1, <2>2, <2>3 DEF VectorsHold, IsAdded, WillBeAdded
<1>5. /\ DOMAIN ws_routes' = DOMAIN ws_routes \cup {p}
      /\ \A q \in DOMAIN ws_routes : ws_routes'[q] = ws_routes[q]
      /\ p \notin DOMAIN ws_routes => ws_routes'[p] = new
  BY <1>1
<1>6. ASSUME NEW q \in DOMAIN ws_routes'
      PROVE  /\ ws_routes'[q] \in Routes /\ WillBeAdded(ws_routes'[q])
             /\ ws_routes'[q].router = "websocket" /\ ws_routes'[q].path = q
  <2>1. CASE q \in DOMAIN ws_routes
    BY <1>3, <1>5, <2>1 DEF TablesInv, MapHoldsFirst, IsAdded, WillBeAdded
  <2>2. CASE q \notin DOMAIN ws_routes
    BY <1>2, <1>3, <1>5, <2>2 DEF IsAdded, WillBeAdded
  <2> QED
    BY <2>1, <2>2
<1>7. ASSUME NEW k \in 1 .. Len(added'), added'[k].router = "websocket"
      PROVE  /\ added'[k].path \in DOMAIN ws_routes'
             /\ ws_routes'[added'[k].path].call <= k
  <2>1. CASE k \in 1 .. Len(added)
    BY <1>3, <1>5, <1>7, <2>1 DEF TablesInv, MapHoldsFirst
  <2>2. CASE k = Len(added) + 1
    <3>1. added'[k].path = p /\ p \in DOMAIN ws_routes'
      BY <1>2, <1>3, <1>5, <2>2
    <3>2. ws_routes'[p].call \in 1 .. Len(added')
      BY <1>6, <3>1 DEF IsAdded, WillBeAdded
    <3> QED
      BY <1>3, <2>2, <3>1, <3>2
  <2> QED
    BY <1>3, <2>1, <2>2
<1>8. MapHoldsFirst'
  BY <1>6, <1>7 DEF MapHoldsFirst, IsAdded, WillBeAdded
<1> QED
  BY <1>3, <1>4, <1>8 DEF TablesInv

-----------------------------------------------------------------------------
(* What handlers end with, and what becomes of it.                         *)

LEMMA BuiltShape ==
  ASSUME NEW status, NEW type, NEW value
  PROVE  Build(status, type, value) # None
BY DEF Build, None

LEMMA ReturnsSomething ==
  ASSUME NEW end \in Ends
  PROVE  Returned(end) # None
<1>1. CASE end = Nullptr \/ end = Throws
  <2>1. end[1] \notin {"hello", "build"} /\ Nullptr # Throws
    BY <1>1 DEF Nullptr, Throws
  <2>2. Returned(end) \in {InternalServerError("500 Internal Server Error"),
                          InternalServerError("e.what()")}
    BY <1>1, <2>1 DEF Returned
  <2>3. \A text : InternalServerError(text) # None
    BY BuiltShape DEF InternalServerError
  <2> QED
    BY <2>2, <2>3, Zenon
<1>2. CASE end \in Hellos
  <2>1. end[1] = "hello"
    BY <1>2 DEF Hellos
  <2>2. end # Nullptr /\ end # Throws
    BY <2>1 DEF Nullptr, Throws
  <2>3. Returned(end) = HelloJson(end[2])
    BY <2>1, <2>2 DEF Returned
  <2>4. \A text : BadRequest(text) # None
    BY BuiltShape DEF BadRequest
  <2>5. HelloJson(end[2]) # None
    <3> DEFINE text == "Users not found!"
    <3>1. HelloJson(end[2]) \in {BadRequest(text), Build(200, "users", end[2])}
      BY DEF HelloJson
    <3> HIDE DEF text
    <3> QED
      BY <2>4, <3>1, BuiltShape
  <2> QED
    BY <2>3, <2>5
<1>3. CASE end \in Builds
  <2>1. end[1] = "build"
    <3>1. \/ end = <<"build", 404, "text", "text">>
          \/ end = <<"build", 200, "empty", "">>
          \/ end = <<"build", 200, "int", 0>>
          \/ \E n \in Names : end = <<"build", 200, "json", WithMessage(n)>>
      BY <1>3, Zenon DEF Builds
    <3>2. CASE end = <<"build", 404, "text", "text">>
      BY <3>2
    <3>3. CASE end = <<"build", 200, "empty", "">>
      BY <3>3
    <3>4. CASE end = <<"build", 200, "int", 0>>
      BY <3>4
    <3>5. ASSUME NEW n \in Names, end = <<"build", 200, "json", WithMessage(n)>>
          PROVE  end[1] = "build"
      BY <3>5
    <3> QED
      BY <3>1, <3>2, <3>3, <3>4, <3>5
  <2>2. end # Nullptr /\ end # Throws
    BY <2>1 DEF Nullptr, Throws
  <2>3. Returned(end) = Build(end[2], end[3], end[4])
    BY <2>1, <2>2 DEF Returned
  <2> QED
    BY <2>3, BuiltShape
<1> QED
  BY <1>1, <1>2, <1>3 DEF Ends

-----------------------------------------------------------------------------
(* The sessions.                                                           *)

LEMMA RunOrAddKeeps ==
  ASSUME IInv, ~ running, TablesInv', UNCHANGED <<asked, route, given, fate, answer>>
  PROVE  IInv'
<1>1. ASSUME NEW s \in Sessions PROVE SessionInv(s)'
  <2>1. /\ asked[s] = NoRequest /\ route[s] = NoRoute /\ answer[s] = None
        /\ given[s] = None /\ fate[s] = None
    BY DEF IInv, SessionInv, GivenFromBody, Rejected
  <2> QED
    BY <2>1 DEF SessionInv, GivenFromBody, Rejected
<1>2. SessionsType'
  BY DEF IInv, SessionsType
<1> QED
  BY <1>1, <1>2 DEF IInv

(* A session that is not asked, and does not go on, knows what it knew.    *)
LEMMA OthersKeep ==
  ASSUME NEW d \in Sessions, SessionInv(d), UNCHANGED tableVars,
         asked'[d] = asked[d], route'[d] = route[d], given'[d] = given[d],
         fate'[d] = fate[d], answer'[d] = answer[d]
  PROVE  SessionInv(d)'
<1>1. Meant(d)' = Meant(d)
  BY DEF tableVars, Meant
<1> QED
  BY <1>1 DEF SessionInv, GivenFromBody, Rejected, Handled, IsHttp, tableVars

(* One session goes on.                                                    *)
LEMMA OneGoesOn ==
  ASSUME IInv, NEW s \in Sessions, UNCHANGED tableVars, SessionsType',
         \A d \in Sessions \ {s} :
           /\ asked'[d] = asked[d] /\ route'[d] = route[d] /\ given'[d] = given[d]
           /\ fate'[d] = fate[d] /\ answer'[d] = answer[d],
         SessionInv(s)'
  PROVE  IInv'
<1>1. TablesInv'
  BY DEF tableVars, IInv, TablesInv, AddedInOrder, VectorsHold, MapHoldsFirst, IsAdded
<1>2. ASSUME NEW d \in Sessions PROVE SessionInv(d)'
  BY OthersKeep DEF IInv
<1> QED
  BY <1>1, <1>2 DEF IInv

LEMMA AskKeeps ==
  ASSUME IInv, NEW s \in Sessions, Ask(s)
  PROVE  IInv'
<1>1. PICK req \in HttpRequests \cup Messages : asked' = [asked EXCEPT ![s] = req]
  BY DEF Ask
<1>2. /\ running
      /\ route' = [route EXCEPT ![s] = NoRoute]
      /\ given' = [given EXCEPT ![s] = None]
      /\ fate' = [fate EXCEPT ![s] = None]
      /\ answer' = [answer EXCEPT ![s] = None]
      /\ UNCHANGED tableVars
  BY DEF Ask
<1>3. SessionsType'
  BY <1>1, <1>2 DEF IInv, SessionsType
<1>4. route'[s] = NoRoute /\ given'[s] = None /\ fate'[s] = None /\ answer'[s] = None
  BY <1>2 DEF IInv, SessionsType
<1>5. running'
  BY <1>2 DEF tableVars
<1>6. SessionInv(s)'
  BY <1>4, <1>5 DEF SessionInv, GivenFromBody, Rejected
<1> QED
  BY <1>1, <1>2, <1>3, <1>6, OneGoesOn DEF IInv, SessionsType

(* A session is turned away: nothing that was added is meant.              *)
LEMMA TurnedAwayKeeps ==
  ASSUME IInv, NEW s \in Sessions, route[s] = NoRoute, asked[s] # NoRequest,
         UNCHANGED <<tableVars, asked, route, given, fate>>,
         NEW a, answer' = [answer EXCEPT ![s] = a],
         Meant(s) = {},
         a = IF ~ IsHttp(s) THEN Nullptr
             ELSE IF asked[s].path = "invalid" THEN InternalServerError("e.what()")
             ELSE BadRequest("404 Bad Request")
  PROVE  IInv'
<1>1. SessionsType'
  BY DEF IInv, SessionsType
<1>2. answer'[s] = a
  BY DEF IInv, SessionsType
<1>3. Meant(s)' = Meant(s) /\ IsHttp(s)' = IsHttp(s)
  BY DEF tableVars, Meant, IsHttp
<1>4. GivenFromBody(s)'
  BY <1>3 DEF IInv, SessionInv, GivenFromBody
<1>5. Rejected(s)'
  BY <1>2, <1>3 DEF IInv, SessionInv, Rejected
<1>6. SessionInv(s)'
  BY <1>4, <1>5 DEF IInv, SessionInv, tableVars
<1> QED
  BY <1>1, <1>6, OneGoesOn DEF IInv, SessionsType

(* What a session of a router has asked.                                   *)
LEMMA FreshRequest ==
  ASSUME IInv, NEW s \in Sessions, NEW r \in HttpRouters \cup {"websocket"},
         asked[s].router = r
  PROVE  /\ asked[s] # NoRequest
         /\ IsHttp(s) <=> r \in HttpRouters
         /\ r \in HttpRouters => asked[s] \in HttpRequests
         /\ r = "websocket" => asked[s] \in Messages
BY RequestShape DEF IInv, SessionsType, IsHttp, HttpRouters

LEMMA RejectKeeps ==
  ASSUME IInv, NEW s \in Sessions, NEW r \in HttpRouters, Reject(s, r)
  PROVE  IInv'
<1>1. /\ asked[s].router = r /\ route[s] = NoRoute
      /\ UNCHANGED <<tableVars, asked, route, given, fate>>
  BY DEF Reject, Fresh
<1>2. asked[s] # NoRequest /\ IsHttp(s)
  BY <1>1, FreshRequest
<1>3. CASE /\ asked[s].path = "invalid"
           /\ answer' = [answer EXCEPT ![s] = InternalServerError("e.what()")]
  <2>1. Meant(s) = {}
    <3>1. \A k \in 1 .. Len(added) : added[k].path \in Paths
      BY MeantShape DEF IInv, TablesInv, Routes
    <3> QED
      BY <1>3, <3>1, PathsAssumption, MeantShape DEF Meant, IInv, TablesInv
  <2> QED
    BY <1>1, <1>2, <1>3, <2>1, TurnedAwayKeeps
<1>4. CASE /\ asked[s].path # "invalid" /\ Matching(r, asked[s]) = {}
           /\ answer' = [answer EXCEPT ![s] = BadRequest("404 Bad Request")]
  <2>1. Meant(s) = {}
    BY <1>1, <1>4, VectorFindsFirst DEF IInv
  <2> QED
    BY <1>1, <1>2, <1>4, <2>1, TurnedAwayKeeps
<1> QED
  BY <1>3, <1>4 DEF Reject

LEMMA RejectMessageKeeps ==
  ASSUME IInv, NEW s \in Sessions, RejectMessage(s)
  PROVE  IInv'
<1>1. /\ asked[s].router = "websocket" /\ route[s] = NoRoute
      /\ asked[s].path \notin DOMAIN ws_routes
      /\ answer' = [answer EXCEPT ![s] = Nullptr]
      /\ UNCHANGED <<tableVars, asked, route, given, fate>>
  BY DEF RejectMessage, Fresh
<1>2. asked[s] # NoRequest /\ ~ IsHttp(s)
  BY <1>1, FreshRequest DEF HttpRouters
<1>3. Meant(s) = {}
  BY <1>1, MapFindsFirst DEF IInv
<1> QED
  BY <1>1, <1>2, <1>3, TurnedAwayKeeps

(* A session comes to the handler of a route that is the first one meant.  *)
LEMMA CalledKeeps ==
  ASSUME IInv, NEW s \in Sessions, route[s] = NoRoute, asked[s] # NoRequest, answer[s] = None,
         NEW found \in Routes, Meant(s) # {}, found = added[Min(Meant(s))],
         route' = [route EXCEPT ![s] = found],
         given' = [given EXCEPT ![s] = IF IsHttp(s) THEN DecodeJson(asked[s].body)
                                                    ELSE FromMessage(asked[s].body)],
         UNCHANGED <<tableVars, asked>>,
         \/ UNCHANGED <<fate, answer>>
         \/ /\ IsHttp(s)
            /\ \E end \in Ends :
                 /\ fate' = [fate EXCEPT ![s] = end]
                 /\ answer' = [answer EXCEPT ![s] = Returned(end)]
  PROVE  IInv'
<1>1. SessionsType'
  BY DEF IInv, SessionsType
<1>2. /\ route'[s] = found
      /\ given'[s] = IF IsHttp(s) THEN DecodeJson(asked[s].body) ELSE FromMessage(asked[s].body)
  BY DEF IInv, SessionsType
<1>3. found # NoRoute
  BY DEF Routes, NoRoute, HttpRouters
<1>4. Meant(s)' = Meant(s) /\ IsHttp(s)' = IsHttp(s) /\ added' = added
  BY DEF tableVars, Meant, IsHttp
<1>5. GivenFromBody(s)'
  BY <1>2, <1>3, <1>4 DEF GivenFromBody
<1>6. \/ answer'[s] = None /\ fate'[s] = None
      \/ IsHttp(s) /\ fate'[s] \in Ends /\ answer'[s] = Returned(fate'[s])
  BY DEF IInv, SessionsType, SessionInv, Rejected
<1>7. ASSUME answer'[s] # None PROVE IsHttp(s) /\ fate'[s] \in Ends /\ answer'[s] = Returned(fate'[s])
  BY <1>6, <1>7
<1>8. answer'[s] = None => fate'[s] = None
  <2>1. \A end \in Ends : Returned(end) # None
    BY ReturnsSomething
  <2> QED
    BY <1>6, <2>1
<1>9. Handled(s)'
  BY <1>2, <1>4, <1>7, <1>8 DEF Handled, Returned
<1>10. SessionInv(s)'
  BY <1>2, <1>3, <1>5, <1>9 DEF IInv, SessionInv, tableVars
<1> QED
  BY <1>1, <1>10, OneGoesOn DEF IInv, SessionsType

LEMMA CallHandlerKeeps ==
  ASSUME IInv, NEW s \in Sessions, CallHandler(s)
  PROVE  IInv'
<1>1. /\ asked[s].router = "coro" /\ route[s] = NoRoute /\ answer[s] = None
      /\ Matching("coro", asked[s]) # {}
      /\ route' = [route EXCEPT ![s] = RouteHandler("coro", asked[s])]
      /\ given' = [given EXCEPT ![s] = DecodeJson(asked[s].body)]
      /\ UNCHANGED <<tableVars, asked, fate, answer>>
  BY DEF CallHandler, Fresh
<1>2. "coro" \in HttpRouters
  BY DEF HttpRouters
<1>3. asked[s] # NoRequest /\ IsHttp(s)
  BY <1>1, <1>2, FreshRequest
<1>4. /\ Meant(s) # {}
      /\ RouteHandler("coro", asked[s]) = added[Min(Meant(s))]
      /\ RouteHandler("coro", asked[s]) \in Routes
  BY <1>1, <1>2, VectorFindsFirst DEF IInv
<1> QED
  BY <1>1, <1>3, <1>4, CalledKeeps

LEMMA HandleRequestKeeps ==
  ASSUME IInv, NEW s \in Sessions, HandleRequest(s)
  PROVE  IInv'
<1>1. /\ asked[s].router = "async" /\ route[s] = NoRoute /\ answer[s] = None
      /\ Matching("async", asked[s]) # {}
      /\ route' = [route EXCEPT ![s] = RouteHandler("async", asked[s])]
      /\ given' = [given EXCEPT ![s] = DecodeJson(asked[s].body)]
      /\ UNCHANGED <<tableVars, asked>>
  BY DEF HandleRequest, Fresh
<1>2. \E end \in Ends :
        /\ fate' = [fate EXCEPT ![s] = end]
        /\ answer' = [answer EXCEPT ![s] = Returned(end)]
  BY DEF HandleRequest
<1>3. "async" \in HttpRouters
  BY DEF HttpRouters
<1>4. asked[s] # NoRequest /\ IsHttp(s)
  BY <1>1, <1>3, FreshRequest
<1>5. /\ Meant(s) # {}
      /\ RouteHandler("async", asked[s]) = added[Min(Meant(s))]
      /\ RouteHandler("async", asked[s]) \in Routes
  BY <1>1, <1>3, VectorFindsFirst DEF IInv
<1> QED
  BY <1>1, <1>2, <1>4, <1>5, CalledKeeps

LEMMA CallWsHandlerKeeps ==
  ASSUME IInv, NEW s \in Sessions, CallWsHandler(s)
  PROVE  IInv'
<1>1. /\ asked[s].router = "websocket" /\ route[s] = NoRoute /\ answer[s] = None
      /\ asked[s].path \in DOMAIN ws_routes
      /\ route' = [route EXCEPT ![s] = ws_routes[asked[s].path]]
      /\ given' = [given EXCEPT ![s] = FromMessage(asked[s].body)]
      /\ UNCHANGED <<tableVars, asked, fate, answer>>
  BY DEF CallWsHandler, Fresh
<1>2. asked[s] # NoRequest /\ ~ IsHttp(s)
  BY <1>1, FreshRequest DEF HttpRouters
<1>3. /\ Meant(s) # {}
      /\ ws_routes[asked[s].path] = added[Min(Meant(s))]
      /\ ws_routes[asked[s].path] \in Routes
  BY <1>1, MapFindsFirst DEF IInv
<1> QED
  BY <1>1, <1>2, <1>3, CalledKeeps

(* The handler a session has come to ends.                                 *)
LEMMA EndedKeeps ==
  ASSUME IInv, NEW s \in Sessions, route[s] # NoRoute,
         UNCHANGED <<tableVars, asked, route, given>>,
         NEW end, NEW a, a # None,
         fate' = [fate EXCEPT ![s] = end],
         answer' = [answer EXCEPT ![s] = a],
         IF IsHttp(s) THEN end \in Ends /\ a = Returned(end)
         ELSE /\ end \in {WsHelloJson(given[s]), Nullptr, Throws}
              /\ a = IF end = Throws THEN Nullptr ELSE end
  PROVE  IInv'
<1>1. SessionsType'
  BY DEF IInv, SessionsType
<1>2. fate'[s] = end /\ answer'[s] = a
  BY DEF IInv, SessionsType
<1>3. /\ Meant(s)' = Meant(s) /\ IsHttp(s)' = IsHttp(s)
      /\ added' = added /\ running' = running
  BY DEF tableVars, Meant, IsHttp
<1>4. GivenFromBody(s)'
  BY <1>3 DEF IInv, SessionInv, GivenFromBody
<1>5. CASE IsHttp(s)
  <2>1. Handled(s)'
    BY <1>2, <1>3, <1>5 DEF IInv, SessionInv, Handled, Returned
  <2>2. SessionInv(s)'
    BY <1>3, <1>4, <2>1 DEF IInv, SessionInv
  <2> QED
    BY <1>1, <2>2, OneGoesOn DEF IInv, SessionsType
<1>6. CASE ~ IsHttp(s)
  <2>1. Handled(s)'
    BY <1>2, <1>3, <1>6 DEF IInv, SessionInv, Handled
  <2>2. SessionInv(s)'
    BY <1>3, <1>4, <2>1 DEF IInv, SessionInv
  <2> QED
    BY <1>1, <2>2, OneGoesOn DEF IInv, SessionsType
<1> QED
  BY <1>5, <1>6

LEMMA HandlerEndsKeeps ==
  ASSUME IInv, NEW s \in Sessions, HandlerEnds(s)
  PROVE  IInv'
<1>1. /\ asked[s].router = "coro" /\ route[s] # NoRoute
      /\ UNCHANGED <<tableVars, asked, route, given>>
  BY DEF HandlerEnds
<1>2. PICK end \in Ends :
        /\ fate' = [fate EXCEPT ![s] = end]
        /\ answer' = [answer EXCEPT ![s] = Returned(end)]
  BY DEF HandlerEnds
<1>3. IsHttp(s)
  BY <1>1, FreshRequest DEF HttpRouters
<1>4. Returned(end) # None
  BY ReturnsSomething
<1> QED
  BY <1>1, <1>2, <1>3, <1>4, EndedKeeps

LEMMA WsHandlerEndsKeeps ==
  ASSUME IInv, NEW s \in Sessions, WsHandlerEnds(s)
  PROVE  IInv'
<1>1. /\ asked[s].router = "websocket" /\ route[s] # NoRoute
      /\ UNCHANGED <<tableVars, asked, route, given>>
  BY DEF WsHandlerEnds
<1>2. PICK end \in {WsHelloJson(given[s]), Nullptr, Throws} :
        /\ fate' = [fate EXCEPT ![s] = end]
        /\ answer' = [answer EXCEPT ![s] = IF end = Throws THEN Nullptr ELSE end]
  BY DEF WsHandlerEnds
<1>3. ~ IsHttp(s)
  BY <1>1, FreshRequest DEF HttpRouters
<1>4. end # None /\ Nullptr # None
  <2>1. Nullptr # None /\ Throws # None
    BY DEF Nullptr, None, Throws
  <2>2. WsHelloJson(given[s]) # None
    BY <2>1 DEF WsHelloJson, WithMessage, None
  <2> QED
    BY <1>2, <2>1, <2>2
<1> QED
  BY <1>1, <1>2, <1>3, <1>4, EndedKeeps

-----------------------------------------------------------------------------
(* The invariant.                                                          *)

LEMMA InitIInv == Init => IInv
<1> SUFFICES ASSUME Init PROVE IInv
  OBVIOUS
<1>1. /\ added = <<>> /\ ws_routes = <<>>
      /\ m_routes = [r \in HttpRouters |-> <<>>]
      /\ Len(added) = 0
  BY DEF Init
<1>2. <<>> \in Seq(Routes) /\ 1 .. 0 = {} /\ DOMAIN ws_routes = {}
  BY <1>1
<1>3. TablesInv
  BY <1>1, <1>2 DEF TablesInv, AddedInOrder, VectorsHold, MapHoldsFirst
<1>4. SessionsType
  BY DEF Init, SessionsType
<1>5. ASSUME NEW s \in Sessions PROVE SessionInv(s)
  BY DEF Init, SessionInv, GivenFromBody, Rejected
<1> QED
  BY <1>3, <1>4, <1>5 DEF IInv

LEMMA ApplicationKeeps ==
  ASSUME IInv, Application
  PROVE  IInv'
<1>1. ASSUME NEW r \in HttpRouters, NEW m \in Methods, NEW p \in Paths, AddRoute(r, m, p)
      PROVE  IInv'
  <2>1. TablesInv'
    BY <1>1, AddRouteKeeps DEF IInv
  <2>2. ~ running /\ UNCHANGED <<asked, route, given, fate, answer>>
    BY <1>1 DEF AddRoute, MayAdd
  <2> QED
    BY <2>1, <2>2, RunOrAddKeeps
<1>2. ASSUME NEW p \in Paths, AddWsRoute(p)
      PROVE  IInv'
  <2>1. TablesInv'
    BY <1>2, AddWsRouteKeeps DEF IInv
  <2>2. ~ running /\ UNCHANGED <<asked, route, given, fate, answer>>
    BY <1>2 DEF AddWsRoute, MayAdd
  <2> QED
    BY <2>1, <2>2, RunOrAddKeeps
<1>3. CASE Run
  <2>1. /\ ~ running /\ UNCHANGED <<added, m_routes, ws_routes>>
        /\ UNCHANGED <<asked, route, given, fate, answer>>
    BY <1>3 DEF Run
  <2>2. TablesInv'
    BY <2>1 DEF IInv, TablesInv, AddedInOrder, VectorsHold, MapHoldsFirst, IsAdded
  <2> QED
    BY <2>1, <2>2, RunOrAddKeeps
<1> QED
  BY <1>1, <1>2, <1>3 DEF Application

LEMMA NextIInv == IInv /\ [Next]_vars => IInv'
<1> SUFFICES ASSUME IInv, [Next]_vars PROVE IInv'
  OBVIOUS
<1>1. CASE Application
  BY <1>1, ApplicationKeeps
<1>2. ASSUME NEW s \in Sessions, Session(s)
      PROVE  IInv'
  BY <1>2, AskKeeps, RejectKeeps, CallHandlerKeeps, HandlerEndsKeeps, HandleRequestKeeps,
     RejectMessageKeeps, CallWsHandlerKeeps, WsHandlerEndsKeeps DEF Session
<1>3. CASE UNCHANGED vars
  <2>1. TablesInv'
    BY <1>3 DEF vars, tableVars, IInv, TablesInv, AddedInOrder, VectorsHold, MapHoldsFirst, IsAdded
  <2>2. SessionsType'
    BY <1>3 DEF vars, IInv, SessionsType
  <2>3. ASSUME NEW s \in Sessions PROVE SessionInv(s)'
    BY <1>3, OthersKeep DEF vars, IInv
  <2> QED
    BY <2>1, <2>2, <2>3 DEF IInv
<1> QED
  BY <1>1, <1>2, <1>3 DEF Next

(* The inductive invariant: the vectors hold the calls of add_route for    *)
(* their router in order and the map the first one for each path, and what *)
(* a session has of its router is of the first route that is meant.        *)
THEOREM Invariance == Spec => []IInv
<1> QED
  BY InitIInv, NextIInv, PTL DEF Spec

-----------------------------------------------------------------------------
(* What the routers promise.                                               *)

(* A session that has come to a handler has asked something.               *)
LEMMA CameFrom ==
  ASSUME IInv, NEW s \in Sessions, route[s] # NoRoute
  PROVE  /\ IsHttp(s) => asked[s] \in HttpRequests
         /\ ~ IsHttp(s) => asked[s] \in Messages /\ asked[s].router = "websocket"
<1>1. asked[s] # NoRequest /\ asked[s] \in HttpRequests \cup Messages \cup {NoRequest}
  BY DEF IInv, SessionInv, SessionsType
<1> QED
  BY <1>1, RequestShape DEF IsHttp, Messages

(* What a handler is given: a document of the request, or a message.       *)
LEMMA GivenShape ==
  ASSUME IInv, NEW s \in Sessions, route[s] # NoRoute
  PROVE  /\ IsHttp(s) => given[s] \in {Null, WithMessage("valid")}
         /\ ~ IsHttp(s) =>
              \/ given[s] = Nullptr
              \/ given[s] = WithMessage("valid") /\ asked[s].body = WithMessage("valid")
<1>1. given[s] = IF IsHttp(s) THEN DecodeJson(asked[s].body) ELSE FromMessage(asked[s].body)
  BY DEF IInv, SessionInv, GivenFromBody
<1>2. CASE IsHttp(s)
  <2>1. asked[s].body \in {Malformed, Null, WithMessage("valid"), Empty}
    BY <1>2, CameFrom DEF HttpRequests, Bodies
  <2> QED
    BY <1>1, <1>2, <2>1 DEF DecodeJson
<1>3. CASE ~ IsHttp(s)
  <2>1. asked[s].body \in {Malformed, Null, WithMessage("valid")}
    BY <1>3, CameFrom DEF Messages, Bodies
  <2>2. Malformed[1] # "message" /\ Null[1] # "message"
    BY DEF Malformed, Null
  <2> QED
    BY <1>1, <1>3, <2>1, <2>2 DEF FromMessage
<1> QED
  BY <1>2, <1>3

LEMMA IInvTypes == IInv => TypeOK
<1> SUFFICES ASSUME IInv PROVE TypeOK
  OBVIOUS
<1>1. /\ Len(added) \in Nat /\ DOMAIN added = 1 .. Len(added)
      /\ ToSet(added) = {added[k] : k \in 1 .. Len(added)}
  BY LenProperties DEF IInv, TablesInv, AddedInOrder, ToSet
<1>2. ASSUME NEW r \in HttpRouters PROVE ToSet(m_routes[r]) \subseteq ToSet(added)
  <2>1. m_routes[r] \in Seq(Routes)
    BY DEF IInv, TablesInv, VectorsHold
  <2>2. ToSet(m_routes[r]) = {m_routes[r][i] : i \in 1 .. Len(m_routes[r])}
    BY <2>1, LenProperties DEF ToSet
  <2>3. \A i \in 1 .. Len(m_routes[r]) : IsAdded(m_routes[r][i])
    BY DEF IInv, TablesInv, VectorsHold
  <2> QED
    BY <1>1, <2>2, <2>3 DEF IsAdded
<1>3. \A p \in DOMAIN ws_routes : ws_routes[p] \in ToSet(added)
  BY <1>1 DEF IInv, TablesInv, MapHoldsFirst, IsAdded
<1>4. ASSUME NEW s \in Sessions
      PROVE  /\ asked[s] \in HttpRequests \cup Messages \cup {NoRequest}
             /\ route[s] \in ToSet(added) \cup {NoRoute}
             /\ given[s] \in {None, Null, WithMessage("valid"), Nullptr}
             /\ fate[s] \in Ends \cup {None, WsHelloJson(WithMessage("valid"))}
  <2>1. asked[s] \in HttpRequests \cup Messages \cup {NoRequest}
    BY DEF IInv, SessionsType
  <2>2. CASE route[s] = NoRoute
    BY <2>1, <2>2 DEF IInv, SessionInv, GivenFromBody, Rejected
  <2>3. CASE route[s] # NoRoute
    <3>1. Handled(s) /\ Meant(s) # {} /\ route[s] = added[Min(Meant(s))]
      BY <2>3 DEF IInv, SessionInv, Handled
    <3>2. Min(Meant(s)) \in 1 .. Len(added)
      BY <3>1, MinIsLeast, MeantShape DEF IInv, TablesInv
    <3>3. route[s] \in ToSet(added)
      BY <1>1, <3>1, <3>2
    <3>4. given[s] \in {None, Null, WithMessage("valid"), Nullptr}
      BY <2>3, GivenShape
    <3>5. Nullptr \in Ends /\ Throws \in Ends
      BY DEF Ends
    <3>6. ASSUME IsHttp(s) PROVE fate[s] \in Ends \cup {None, WsHelloJson(WithMessage("valid"))}
      BY <3>1, <3>6 DEF Handled
    <3>7. ASSUME ~ IsHttp(s) PROVE fate[s] \in Ends \cup {None, WsHelloJson(WithMessage("valid"))}
      <4>1. WsHelloJson(given[s]) \in {Nullptr, WsHelloJson(WithMessage("valid"))}
        BY <2>3, <3>7, GivenShape DEF WsHelloJson
      <4> QED
        BY <3>1, <3>5, <3>7, <4>1 DEF Handled
    <3>8. fate[s] \in Ends \cup {None, WsHelloJson(WithMessage("valid"))}
      BY <3>6, <3>7
    <3> QED
      BY <2>1, <3>3, <3>4, <3>8
  <2> QED
    BY <2>2, <2>3
<1> QED
  BY <1>2, <1>3, <1>4 DEF TypeOK

(* Type correctness: every route that the tables hold or a session has     *)
(* come to is one the application has added.                               *)
THEOREM TypeCorrect == Spec => []TypeOK
<1> QED
  BY Invariance, IInvTypes, PTL

(* Of the routes that were added for a path and a method the first one     *)
(* answers, in the vectors and in the map, and a request that has a route  *)
(* comes to its handler.                                                   *)
THEOREM FirstAnswers == Spec => []FirstRouteAnswers
<1>1. IInv => FirstRouteAnswers
  BY DEF IInv, SessionInv, Rejected, Handled, FirstRouteAnswers
<1> QED
  BY <1>1, Invariance, PTL

(* What a websocket session writes is the echo of the message it has read. *)
THEOREM EchoIsOfMessage == Spec => []EchoMatches
<1>1. ASSUME IInv, NEW s \in Sessions,
             asked[s].router = "websocket", answer[s] \notin {None, Nullptr}
      PROVE  /\ asked[s].body = WithMessage("valid")
             /\ answer[s] = WsHelloJson(asked[s].body)
             /\ Meant(s) # {}
  <2>1. ~ IsHttp(s)
    BY <1>1 DEF IsHttp, HttpRouters
  <2>2. route[s] # NoRoute
    BY <1>1, <2>1 DEF IInv, SessionInv, Rejected
  <2>3. Handled(s)
    BY <1>1, <2>2 DEF IInv, SessionInv
  <2>4. answer[s] = WsHelloJson(given[s]) /\ Meant(s) # {}
    BY <1>1, <2>1, <2>3 DEF Handled
  <2>5. given[s] # Nullptr
    BY <1>1, <2>4 DEF WsHelloJson
  <2> QED
    BY <1>1, <2>1, <2>2, <2>4, <2>5, GivenShape
<1>2. IInv => EchoMatches
  BY <1>1 DEF EchoMatches
<1> QED
  BY <1>2, Invariance, PTL

(* What becomes of the ends of handlers, one kind after the other.         *)
EndTells(end) ==
  /\ Returned(end)[1] = "response"
  /\ Returned(end)[2] >= 400 => Returned(end)[3] = Null
  /\ Returned(end)[2] = 500 <=> end \in {Nullptr, Throws} \/ Unreadable(end)
  /\ end[1] = "hello" /\ Returned(end)[2] = 200 => Returned(end)[3] = WithUsers(end[2])

(* A response whose content can be written has it, and its status.         *)
LEMMA BuildOfReadable ==
  ASSUME NEW status, NEW type, NEW value, NEW content,
         Serialize(type, value) = content, content # Fails
  PROVE  Build(status, type, value) = <<"response", status, content>>
BY DEF Build

LEMMA BuildOfUnreadable ==
  ASSUME NEW status, NEW type, NEW value, Serialize(type, value) = Fails
  PROVE  Build(status, type, value) = <<"response", 500, Null>>
BY DEF Build, Serialize

(* The errors the routers answer with themselves.                          *)
LEMMA ErrorsShape ==
  ASSUME NEW text
  PROVE  /\ BadRequest(text) = <<"response", 400, Null>>
         /\ InternalServerError(text) = <<"response", 500, Null>>
<1>1. Serialize("text", text) = Null /\ Null # Fails
  BY DEF Serialize, Null, Fails
<1> QED
  BY <1>1, BuildOfReadable DEF BadRequest, InternalServerError

LEMMA OwnErrors ==
  /\ InternalServerError("500 Internal Server Error") = <<"response", 500, Null>>
  /\ InternalServerError("e.what()") = <<"response", 500, Null>>
  /\ BadRequest("404 Bad Request") = <<"response", 400, Null>>
  /\ BadRequest("Users not found!") = <<"response", 400, Null>>
<1> DEFINE failed == "500 Internal Server Error"
           thrown == "e.what()"
           unknown == "404 Bad Request"
           missing == "Users not found!"
<1> HIDE DEF failed, thrown, unknown, missing
<1>1. InternalServerError(failed) = <<"response", 500, Null>>
  BY ErrorsShape
<1>2. InternalServerError(thrown) = <<"response", 500, Null>>
  BY ErrorsShape
<1>3. BadRequest(unknown) = <<"response", 400, Null>>
  BY ErrorsShape
<1>4. BadRequest(missing) = <<"response", 400, Null>>
  BY ErrorsShape
<1> QED
  BY <1>1, <1>2, <1>3, <1>4 DEF failed, thrown, unknown, missing

LEMMA EndTellsNone ==
  ASSUME NEW end \in {Nullptr, Throws}
  PROVE  EndTells(end)
<1>1. end[1] \notin {"hello", "build"} /\ Nullptr # Throws
  BY DEF Nullptr, Throws
<1>2. Returned(end) \in {InternalServerError("500 Internal Server Error"),
                        InternalServerError("e.what()")}
  BY <1>1 DEF Returned
<1>3. Returned(end) = <<"response", 500, Null>>
  <2>1. InternalServerError("500 Internal Server Error") = <<"response", 500, Null>>
    BY OwnErrors
  <2>2. InternalServerError("e.what()") = <<"response", 500, Null>>
    BY OwnErrors
  <2> QED
    BY <1>2, <2>1, <2>2
<1> QED
  BY <1>1, <1>3 DEF EndTells

LEMMA EndTellsHello ==
  ASSUME NEW end \in Hellos
  PROVE  EndTells(end)
<1>1. PICK u \in {Nullptr, <<>>} \cup {<<n, "valid">> : n \in Names} : end = <<"hello", u>>
  BY DEF Hellos
<1>2. /\ end[1] = "hello" /\ end[2] = u
      /\ end \notin {Nullptr, Throws}
  BY <1>1 DEF Nullptr, Throws
<1>3. Returned(end) = HelloJson(u)
  BY <1>2 DEF Returned
<1>4. Unreadable(end) <=> "invalid" \in ToSet(u)
  BY <1>2 DEF Unreadable
<1>5. CASE u = Nullptr
  <2>1. "invalid" \notin ToSet(u)
    BY <1>5 DEF ToSet, Nullptr
  <2>2. Returned(end) = <<"response", 400, Null>>
    <3>1. BadRequest("Users not found!") = <<"response", 400, Null>>
      BY OwnErrors
    <3> QED
      BY <1>3, <1>5, <3>1 DEF HelloJson
  <2> QED
    BY <1>2, <1>4, <2>1, <2>2 DEF EndTells
<1>6. ASSUME u # Nullptr, "invalid" \notin ToSet(u)
      PROVE  EndTells(end)
  <2>1. Serialize("users", u) = WithUsers(u) /\ WithUsers(u) # Fails
    BY <1>6 DEF Serialize, WithUsers, Fails
  <2>2. Returned(end) = <<"response", 200, WithUsers(u)>>
    BY <1>3, <1>6, <2>1, BuildOfReadable DEF HelloJson
  <2> QED
    BY <1>2, <1>4, <1>6, <2>2 DEF EndTells
<1>7. ASSUME u # Nullptr, "invalid" \in ToSet(u)
      PROVE  EndTells(end)
  <2>1. Serialize("users", u) = Fails
    BY <1>7 DEF Serialize
  <2>2. Returned(end) = <<"response", 500, Null>>
    BY <1>3, <1>7, <2>1, BuildOfUnreadable DEF HelloJson
  <2> QED
    BY <1>2, <1>4, <1>7, <2>2 DEF EndTells
<1> QED
  BY <1>5, <1>6, <1>7

(* A handler that builds a response by itself.                             *)
LEMMA EndTellsBuilt ==
  ASSUME NEW status \in Nat, NEW type, NEW value, NEW end,
         end = <<"build", status, type, value>>,
         status \in {200, 404},
         NEW content, Serialize(type, value) = content,
         content = Fails <=> type = "json" /\ value = WithMessage("invalid"),
         status = 404 => content = Null
  PROVE  EndTells(end)
<1>1. /\ end[1] = "build" /\ end[2] = status /\ end[3] = type /\ end[4] = value
      /\ end \notin {Nullptr, Throws}
  BY DEF Nullptr, Throws
<1>2. Returned(end) = Build(status, type, value)
  BY <1>1 DEF Returned
<1>3. Unreadable(end) <=> content = Fails
  BY <1>1 DEF Unreadable
<1>4. CASE content = Fails
  <2>1. Returned(end) = <<"response", 500, Null>>
    BY <1>2, <1>4, BuildOfUnreadable
  <2> QED
    BY <1>1, <1>3, <1>4, <2>1 DEF EndTells
<1>5. CASE content # Fails
  <2>1. Returned(end) = <<"response", status, content>>
    BY <1>2, <1>5, BuildOfReadable
  <2> QED
    BY <1>1, <1>3, <1>5, <2>1 DEF EndTells
<1> QED
  BY <1>4, <1>5

LEMMA EndTellsBuild ==
  ASSUME NEW end \in Builds
  PROVE  EndTells(end)
<1>1. \/ end = <<"build", 404, "text", "text">>
      \/ end = <<"build", 200, "empty", "">>
      \/ end = <<"build", 200, "int", 0>>
      \/ \E n \in Names : end = <<"build", 200, "json", WithMessage(n)>>
  BY Zenon DEF Builds
<1>2. CASE end = <<"build", 404, "text", "text">>
  <2>1. Serialize("text", "text") = Null /\ Null # Fails
    BY DEF Serialize, Null, Fails
  <2> QED
    BY <1>2, <2>1, EndTellsBuilt
<1>3. CASE end = <<"build", 200, "empty", "">>
  <2> DEFINE nothing == ""
  <2>1. Serialize("empty", nothing) = Empty /\ Empty # Fails
    BY DEF Serialize, Empty, Fails
  <2>2. end = <<"build", 200, "empty", nothing>>
    BY <1>3
  <2> HIDE DEF nothing
  <2> QED
    BY <2>1, <2>2, EndTellsBuilt
<1>4. CASE end = <<"build", 200, "int", 0>>
  <2>1. Serialize("int", 0) = <<"digits", 0>> /\ <<"digits", 0>> # Fails
    BY DEF Serialize, Fails
  <2> QED
    BY <1>4, <2>1, EndTellsBuilt
<1>5. ASSUME NEW n \in Names, end = <<"build", 200, "json", WithMessage(n)>>
      PROVE  EndTells(end)
  <2>1. Serialize("json", WithMessage(n)) = Fails <=> WithMessage(n) = WithMessage("invalid")
    BY DEF Serialize, WithMessage, Fails
  <2> QED
    BY <1>5, <2>1, EndTellsBuilt
<1> QED
  BY <1>1, <1>2, <1>3, <1>4, <1>5

(* An HTTP session always gets a response, and its status tells how the    *)
(* handler has ended, or why there was none.                               *)
THEOREM StatusTellsEnd == Spec => []StatusTells
<1>1. ASSUME IInv, NEW s \in Sessions, asked[s].router \in HttpRouters, answer[s] # None
      PROVE  /\ answer[s][1] = "response"
             /\ answer[s][2] >= 400 => answer[s][3] = Null
             /\ answer[s][2] = 500
                  <=> asked[s].path = "invalid" \/ fate[s] \in {Nullptr, Throws}
                      \/ Unreadable(fate[s])
             /\ fate[s][1] = "hello" /\ answer[s][2] = 200 => answer[s][3] = WithUsers(fate[s][2])
             /\ Meant(s) = {} /\ asked[s].path # "invalid" => answer[s][2] = 400
  <2>1. IsHttp(s)
    BY <1>1 DEF IsHttp
  <2>2. CASE route[s] = NoRoute
    <3>1. /\ fate[s] = None
          /\ answer[s] = IF asked[s].path = "invalid" THEN InternalServerError("e.what()")
                         ELSE BadRequest("404 Bad Request")
      BY <1>1, <2>1, <2>2 DEF IInv, SessionInv, Rejected
    <3>2. None \notin {Nullptr, Throws} /\ None[1] = "none" /\ ~ Unreadable(None)
      BY DEF None, Nullptr, Throws, Unreadable
    <3>3. answer[s] = <<"response", IF asked[s].path = "invalid" THEN 500 ELSE 400, Null>>
      <4>1. InternalServerError("e.what()") = <<"response", 500, Null>>
        BY OwnErrors
      <4>2. BadRequest("404 Bad Request") = <<"response", 400, Null>>
        BY OwnErrors
      <4> QED
        BY <3>1, <4>1, <4>2
    <3>4. CASE asked[s].path = "invalid"
      <4>1. answer[s] = <<"response", 500, Null>>
        BY <3>3, <3>4
      <4> QED
        BY <3>1, <3>2, <3>4, <4>1
    <3>5. CASE asked[s].path # "invalid"
      <4>1. answer[s] = <<"response", 400, Null>>
        BY <3>3, <3>5
      <4>2. fate[s] = None
        BY <3>1
      <4> QED
        BY <3>2, <3>5, <4>1, <4>2
    <3> QED
      BY <3>4, <3>5
  <2>3. CASE route[s] # NoRoute
    <3>1. fate[s] \in Ends /\ answer[s] = Returned(fate[s]) /\ Meant(s) # {}
      BY <1>1, <2>1, <2>3 DEF IInv, SessionInv, Handled
    <3>2. asked[s].path # "invalid"
      <4>1. PICK k \in Meant(s) : TRUE
        BY <3>1
      <4>2. added[k].path = asked[s].path /\ added[k] \in Routes
        BY <1>1, <4>1, MeantShape DEF Meant, IInv, TablesInv
      <4> QED
        BY <4>2, PathsAssumption DEF Routes
    <3>3. EndTells(fate[s])
      BY <3>1, EndTellsNone, EndTellsHello, EndTellsBuild DEF Ends
    <3> QED
      BY <3>1, <3>2, <3>3 DEF EndTells
  <2> QED
    BY <2>2, <2>3
<1>2. IInv => StatusTells
  BY <1>1 DEF StatusTells
<1> QED
  BY <1>2, Invariance, PTL

-----------------------------------------------------------------------------
(* 0 is in a set, and with each number the next, up to N.                  *)
Inductive(S, N) ==
  /\ 0 \in S
  /\ \A n \in 1 .. N : n - 1 \in S => n \in S

(* What holds at 0 and is kept by each step up to N holds up to N.         *)
LEMMA UpTo ==
  ASSUME NEW N \in Nat, NEW S, Inductive(S, N)
  PROVE  \A n \in 0 .. N : n \in S
<1> DEFINE T == {n \in 0 .. N : n \notin S}
<1> SUFFICES ASSUME T # {} PROVE FALSE
  OBVIOUS
<1>1. T \in SUBSET Nat
  OBVIOUS
<1> HIDE DEF T
<1>2. Min(T) \in T /\ \A x \in T : Min(T) <= x
  BY <1>1, MinIsLeast
<1>3. Min(T) \in 1 .. N /\ Min(T) \notin S
  BY <1>2 DEF T, Inductive
<1>4. Min(T) - 1 \in 0 .. N /\ Min(T) - 1 \notin T
  BY <1>2, <1>3
<1> QED
  BY <1>3, <1>4 DEF T, Inductive

(* f has the values of a loop: at 0 the base, and at n what step n makes   *)
(* of the one before.                                                      *)
IsLoop(f, N, Acc, base, step) ==
  /\ f \in [0 .. N -> Acc]
  /\ f[0] = base
  /\ \A n \in 1 .. N : f[n] = step[n][f[n - 1]]

(* A loop has its values: what a recursive function on 0 .. N says of      *)
(* itself is true of one.                                                  *)
LEMMA LoopExists ==
  ASSUME NEW N \in Nat, NEW Acc, NEW base \in Acc, NEW step \in [1 .. N -> [Acc -> Acc]]
  PROVE  \E f : IsLoop(f, N, Acc, base, step)
<1> DEFINE Loop(f, m) == IsLoop(f, m, Acc, base, step)
           S == {m \in 0 .. N : \E f : Loop(f, m)}
<1>1. 0 \in S
  <2>1. Loop([n \in 0 .. 0 |-> base], 0)
    BY DEF IsLoop
  <2> QED
    BY <2>1
<1>2. ASSUME NEW m \in 1 .. N, m - 1 \in S PROVE m \in S
  <2>1. PICK f : Loop(f, m - 1)
    BY <1>2
  <2> DEFINE g == [n \in 0 .. m |-> IF n = m THEN step[m][f[m - 1]] ELSE f[n]]
  <2>2. f[m - 1] \in Acc
    BY <2>1 DEF IsLoop
  <2>3. g \in [0 .. m -> Acc] /\ g[0] = base
    BY <2>1, <2>2 DEF IsLoop
  <2>4. ASSUME NEW n \in 1 .. m PROVE g[n] = step[n][g[n - 1]]
    BY <2>1 DEF IsLoop
  <2>5. Loop(g, m)
    BY <2>3, <2>4 DEF IsLoop
  <2> QED
    BY <2>5
<1>3. N \in S
  <2>1. Inductive(S, N)
    BY <1>1, <1>2 DEF Inductive
  <2> HIDE DEF S
  <2> QED
    BY <2>1, UpTo
<1>4. PICK f : Loop(f, N)
  BY <1>3
<1> QED
  BY <1>4

(* The loop over the parameters.                                           *)
ParamLoop(map, list) ==
  map = [n \in 0 .. Len(list) |->
           IF n = 0 THEN Nothing
           ELSE Emplaced(map[n - 1], list[n].name, list[n].value)]

(* QueryParams is the last value of its loop (http_request.h:47-50).       *)
LEMMA QueryParamsLoop ==
  ASSUME NEW list, Len(list) \in Nat
  PROVE  \E map : ParamLoop(map, list) /\ QueryParams(list) = map[Len(list)]
<1> DEFINE N == Len(list)
           names == {list[n].name : n \in 1 .. N}
           values == {list[n].value : n \in 1 .. N}
           Acc == UNION {[D -> values] : D \in SUBSET names}
           step == [n \in 1 .. N |-> [a \in Acc |-> Emplaced(a, list[n].name, list[n].value)]]
<1>1. Nothing \in Acc
  <2>1. Nothing \in [{} -> values] /\ {} \in SUBSET names
    BY DEF Nothing
  <2> QED
    BY <2>1
<1>2. ASSUME NEW a \in Acc, NEW n \in 1 .. N
      PROVE  Emplaced(a, list[n].name, list[n].value) \in Acc
  <2>1. PICK D \in SUBSET names : a \in [D -> values]
    OBVIOUS
  <2>2. D \cup {list[n].name} \in SUBSET names
    OBVIOUS
  <2>3. Assigned(a, list[n].name, list[n].value) \in [D \cup {list[n].name} -> values]
    BY <2>1 DEF Assigned
  <2>4. Assigned(a, list[n].name, list[n].value) \in Acc
    BY <2>2, <2>3
  <2> HIDE DEF Acc
  <2> QED
    BY <2>4 DEF Emplaced
<1> HIDE DEF Acc
<1>3. step \in [1 .. N -> [Acc -> Acc]]
  BY <1>2
<1>4. PICK f : IsLoop(f, N, Acc, Nothing, step)
  <2> HIDE DEF step
  <2> QED
    BY <1>1, <1>3, LoopExists
<1>5. \A n \in 1 .. N : f[n] = Emplaced(f[n - 1], list[n].name, list[n].value)
  <2> SUFFICES ASSUME NEW n \in 1 .. N
               PROVE  f[n] = Emplaced(f[n - 1], list[n].name, list[n].value)
    OBVIOUS
  <2>1. f[n - 1] \in Acc /\ f[n] = step[n][f[n - 1]]
    BY <1>4 DEF IsLoop
  <2> QED
    BY <2>1
<1>6. ParamLoop(f, list)
  <2>1. \A n \in 0 .. N : f[n] = IF n = 0 THEN Nothing
                                ELSE Emplaced(f[n - 1], list[n].name, list[n].value)
    BY <1>4, <1>5 DEF IsLoop
  <2> QED
    BY <1>4, <2>1 DEF IsLoop, ParamLoop
<1>7. QueryParams(list) = (CHOOSE map : ParamLoop(map, list))[N]
  BY DEF QueryParams, ParamLoop
<1> QED
  BY <1>6, <1>7

(* Of parameters with one name the first counts.                           *)
LEMMA FirstParamCounts ==
  ASSUME NEW list \in Seq(Named)
  PROVE  /\ DOMAIN QueryParams(list) = {list[i].name : i \in DOMAIN list}
         /\ \A i \in DOMAIN list :
              (\A j \in 1 .. i - 1 : list[j].name # list[i].name)
                => QueryParams(list)[list[i].name] = list[i].value
<1>1. Len(list) \in Nat /\ DOMAIN list = 1 .. Len(list)
  OBVIOUS
<1>2. PICK map : ParamLoop(map, list) /\ QueryParams(list) = map[Len(list)]
  BY <1>1, QueryParamsLoop
<1> DEFINE N == Len(list)
           P(n) == /\ DOMAIN map[n] = {list[i].name : i \in 1 .. n}
                   /\ \A i \in 1 .. n :
                        (\A j \in 1 .. i - 1 : list[j].name # list[i].name)
                          => map[n][list[i].name] = list[i].value
           S == {n \in 0 .. N : P(n)}
<1>3. P(0)
  <2>1. map[0] = Nothing
    BY <1>1, <1>2 DEF ParamLoop
  <2> QED
    BY <2>1 DEF Nothing
<1>4. ASSUME NEW n \in 1 .. N, P(n - 1) PROVE P(n)
  <2> DEFINE name == list[n].name
             before == map[n - 1]
  <2>1. map[n] = Emplaced(before, name, list[n].value) /\ n - 1 \in Nat
    BY <1>1, <1>2 DEF ParamLoop
  <2> HIDE DEF before
  <2>2. 1 .. n = 1 .. n - 1 \cup {n}
    OBVIOUS
  <2>3. DOMAIN map[n] = DOMAIN before \cup {name}
    BY <2>1 DEF Emplaced, Assigned
  <2>4. DOMAIN before = {list[i].name : i \in 1 .. n - 1}
    BY <1>4 DEF before
  <2>5. DOMAIN map[n] = {list[i].name : i \in 1 .. n}
    BY <2>2, <2>3, <2>4
  <2>6. ASSUME NEW i \in 1 .. n, \A j \in 1 .. i - 1 : list[j].name # list[i].name
        PROVE  map[n][list[i].name] = list[i].value
    <3>1. CASE i = n
      <4>1. name \notin DOMAIN before
        BY <2>4, <2>6, <3>1
      <4> QED
        BY <2>1, <3>1, <4>1 DEF Emplaced, Assigned
    <3>2. CASE i # n
      <4>1. i \in 1 .. n - 1
        BY <3>2
      <4>2. list[i].name \in DOMAIN before /\ before[list[i].name] = list[i].value
        BY <1>4, <2>4, <2>6, <4>1 DEF before
      <4> QED
        BY <2>1, <4>2 DEF Emplaced, Assigned
    <3> QED
      BY <3>1, <3>2
  <2> QED
    BY <2>5, <2>6
<1>5. Inductive(S, N)
  <2> HIDE DEF P
  <2> QED
    BY <1>3, <1>4 DEF Inductive
<1>6. \A n \in 0 .. N : P(n)
  <2> HIDE DEF S
  <2>1. \A n \in 0 .. N : n \in S
    BY <1>1, <1>5, UpTo
  <2> QED
    BY <2>1 DEF S
<1> QED
  BY <1>1, <1>2, <1>6

(* Of some places of a list one is the last.                               *)
LEMMA LastExists ==
  ASSUME NEW N \in Nat, NEW S \in SUBSET (1 .. N), S # {}
  PROVE  \E i \in S : \A j \in S : j <= i
<1> DEFINE T == {N - i : i \in S}
<1>1. T \in SUBSET Nat /\ T # {}
  <2>1. \A i \in S : i \in 1 .. N /\ N - i \in Nat
    OBVIOUS
  <2> QED
    BY <2>1
<1>2. Min(T) \in T /\ \A x \in T : Min(T) <= x
  <2> HIDE DEF T
  <2> QED
    BY <1>1, MinIsLeast
<1>3. PICK i \in S : Min(T) = N - i
  BY <1>2
<1>4. ASSUME NEW j \in S PROVE j <= i
  <2>1. N - j \in T /\ N - i <= N - j
    BY <1>2, <1>3
  <2> QED
    BY <2>1
<1> QED
  BY <1>4

-----------------------------------------------------------------------------
(* The header fields as beast stores them.                                 *)

(* Fields of one name are side by side; the first of a name is the first   *)
(* that came, and the last the last.  N are those that have come.          *)
FirstOf(list, i) == \A j \in 1 .. i - 1 : list[j].name # list[i].name

LastOf(list, i) == \A j \in i + 1 .. Len(list) : list[j].name # list[i].name

Grouped(list) ==
  \A i, j, k \in 1 .. Len(list) :
    i < j /\ j < k /\ list[i].name = list[k].name => list[j].name = list[i].name

FirstIsFirst(list, came, N) ==
  \A i \in 1 .. Len(list) :
    FirstOf(list, i) => \E j \in 1 .. N : /\ came[j] = list[i]
                                         /\ \A k \in 1 .. N : came[k].name = list[i].name => j <= k

LastIsLast(list, came, N) ==
  \A i \in 1 .. Len(list) :
    LastOf(list, i) => \E j \in 1 .. N : /\ came[j] = list[i]
                                        /\ \A k \in 1 .. N : came[k].name = list[i].name => k <= j

StoredInv(list, came, N) ==
  /\ list \in Seq(Named)
  /\ {list[i].name : i \in 1 .. Len(list)} = {came[i].name : i \in 1 .. N}
  /\ Grouped(list)
  /\ FirstIsFirst(list, came, N)
  /\ LastIsLast(list, came, N)

(* new is list with field behind its place c, where no other of its name   *)
(* follows.                                                                *)
InsertedAt(new, list, field, c) ==
  /\ new \in Seq(Named)
  /\ Len(new) = Len(list) + 1
  /\ \A i \in 1 .. c : new[i] = list[i]
  /\ new[c + 1] = field
  /\ \A i \in c + 2 .. Len(list) + 1 : new[i] = list[i - 1]
  /\ \A i \in c + 1 .. Len(list) : list[i].name # field.name
  /\ \/ c \in 1 .. Len(list) /\ list[c].name = field.name
     \/ c = Len(list) /\ \A i \in 1 .. Len(list) : list[i].name # field.name

(* A field of a new name goes to the end, one of a known name behind the   *)
(* last of that name.                                                      *)
LEMMA InsertPlace ==
  ASSUME NEW list \in Seq(Named), Grouped(list), NEW field \in Named
  PROVE  \E c \in 0 .. Len(list) : InsertedAt(Insert(list, field), list, field, c)
<1> DEFINE same == {i \in DOMAIN list : list[i].name = field.name}
           L == Len(list)
<1>1. L \in Nat /\ DOMAIN list = 1 .. L
  OBVIOUS
<1>2. CASE same = {}
  <2>1. Insert(list, field) = Append(list, field)
    BY <1>2 DEF Insert
  <2>2. \A i \in 1 .. L : list[i].name # field.name
    BY <1>1, <1>2
  <2>3. /\ Append(list, field) \in Seq(Named)
        /\ Len(Append(list, field)) = L + 1
        /\ \A i \in 1 .. L : Append(list, field)[i] = list[i]
        /\ Append(list, field)[L + 1] = field
    OBVIOUS
  <2>4. InsertedAt(Insert(list, field), list, field, L)
    BY <1>1, <2>1, <2>2, <2>3 DEF InsertedAt
  <2> QED
    BY <1>1, <2>4
<1>3. CASE same # {}
  <2>1. PICK c \in same : \A i \in same : i <= c
    BY <1>1, <1>3, LastExists
  <2>2. c \in 1 .. L /\ c + 1 \notin same
    BY <1>1, <2>1
  <2>3. ASSUME NEW i \in same, i + 1 \notin same PROVE i = c
    <3>1. i \in 1 .. L /\ i <= c
      BY <1>1, <2>1
    <3>2. CASE i < c
      <4>1. CASE i + 1 = c
        BY <2>3, <4>1
      <4>2. CASE i + 1 < c
        <5>1. list[i].name = list[c].name /\ i + 1 \in 1 .. L
          BY <1>1, <2>2, <3>1, <4>2
        <5>2. list[i + 1].name = field.name
          BY <2>2, <3>1, <4>2, <5>1 DEF Grouped
        <5> QED
          BY <1>1, <2>3, <5>1, <5>2
      <4> QED
        BY <2>2, <3>1, <3>2, <4>1, <4>2
    <3> QED
      BY <2>2, <3>1, <3>2
  <2>4. (CHOOSE i \in same : i + 1 \notin same) = c
    BY <2>1, <2>2, <2>3
  <2>5. Insert(list, field) = SubSeq(list, 1, c) \o <<field>> \o SubSeq(list, c + 1, L)
    <3>1. Insert(list, field) = InsertAt(list, 1 + c, field)
      BY <1>3, <2>4 DEF Insert
    <3>2. (1 + c) - 1 = c /\ 1 + c = c + 1
      BY <2>2
    <3> QED
      BY <3>1, <3>2 DEF InsertAt
  <2> DEFINE p == SubSeq(list, 1, c)
             q == SubSeq(list, c + 1, L)
  <2>6. /\ p \in Seq(Named) /\ Len(p) = c
        /\ \A i \in 1 .. c : p[i] = list[i]
    BY <1>1, <2>2
  <2>7. /\ q \in Seq(Named) /\ Len(q) = L - c
        /\ \A i \in 1 .. L - c : q[i] = list[c + i]
    BY <1>1, <2>2
  <2>8. <<field>> \in Seq(Named) /\ Len(<<field>>) = 1 /\ <<field>>[1] = field
    OBVIOUS
  <2> HIDE DEF p, q
  <2>9. /\ p \o <<field>> \in Seq(Named) /\ Len(p \o <<field>>) = c + 1
        /\ \A i \in 1 .. c : (p \o <<field>>)[i] = list[i]
        /\ (p \o <<field>>)[c + 1] = field
    BY <2>2, <2>6, <2>8, ConcatProperties
  <2> DEFINE r == p \o <<field>>
  <2>10. /\ r \in Seq(Named) /\ Len(r) = c + 1
        /\ \A i \in 1 .. c : r[i] = list[i]
        /\ r[c + 1] = field
    BY <2>9
  <2> HIDE DEF r
  <2>11. /\ r \o q \in Seq(Named) /\ Len(r \o q) = L + 1
         /\ \A i \in 1 .. c + 1 : (r \o q)[i] = r[i]
         /\ \A i \in c + 2 .. L + 1 : (r \o q)[i] = q[i - (c + 1)]
    <3>1. /\ r \o q \in Seq(Named)
          /\ Len(r \o q) = Len(r) + Len(q)
          /\ \A i \in 1 .. Len(r) + Len(q) :
               (r \o q)[i] = IF i <= Len(r) THEN r[i] ELSE q[i - Len(r)]
      BY <2>7, <2>10, ConcatProperties
    <3>2. Len(r) = c + 1 /\ Len(q) = L - c /\ Len(r) + Len(q) = L + 1
      BY <1>1, <2>2, <2>7, <2>10
    <3> QED
      BY <1>1, <2>2, <3>1, <3>2
  <2>12. Insert(list, field) = r \o q
    BY <2>5 DEF r, p, q
  <2>13. \A i \in c + 2 .. L + 1 : (r \o q)[i] = list[i - 1]
    <3> SUFFICES ASSUME NEW i \in c + 2 .. L + 1 PROVE (r \o q)[i] = list[i - 1]
      OBVIOUS
    <3>1. i - (c + 1) \in 1 .. L - c /\ c + (i - (c + 1)) = i - 1
      BY <1>1, <2>2
    <3> QED
      BY <2>7, <2>11, <3>1
  <2>14. \A i \in 1 .. c : (r \o q)[i] = list[i]
    BY <1>1, <2>2, <2>10, <2>11
  <2>15. (r \o q)[c + 1] = field
    BY <1>1, <2>2, <2>10, <2>11
  <2>16. \A i \in c + 1 .. L : list[i].name # field.name
    BY <1>1, <2>1, <2>2
  <2>17. InsertedAt(r \o q, list, field, c)
    BY <1>1, <2>2, <2>11, <2>13, <2>14, <2>15, <2>16 DEF InsertedAt
  <2> QED
    BY <2>2, <2>12, <2>17
<1> QED
  BY <1>2, <1>3

(* Inserting one more field keeps the list grouped, and in each group the  *)
(* order in which its fields came.                                         *)
LEMMA InsertKeeps ==
  ASSUME NEW list, NEW came, NEW N \in Nat, StoredInv(list, came, N),
         came[N + 1] \in Named
  PROVE  StoredInv(Insert(list, came[N + 1]), came, N + 1)
<1> DEFINE field == came[N + 1]
           new == Insert(list, came[N + 1])
           L == Len(list)
<1>1. list \in Seq(Named) /\ L \in Nat /\ Grouped(list)
  BY DEF StoredInv
<1>2. PICK c \in 0 .. L : InsertedAt(new, list, field, c)
  BY <1>1, InsertPlace
<1>3. /\ new \in Seq(Named) /\ Len(new) = L + 1
      /\ \A i \in 1 .. c : new[i] = list[i]
      /\ new[c + 1] = field
      /\ \A i \in c + 2 .. L + 1 : new[i] = list[i - 1]
      /\ \A i \in c + 1 .. L : list[i].name # field.name
      /\ \/ c \in 1 .. L /\ list[c].name = field.name
         \/ c = L /\ \A i \in 1 .. L : list[i].name # field.name
  BY <1>2 DEF InsertedAt
<1> HIDE DEF new, L, field
<1> DEFINE old(i) == IF i <= c THEN i ELSE i - 1
<1>4. ASSUME NEW i \in 1 .. L + 1, i # c + 1
      PROVE  /\ old(i) \in 1 .. L /\ new[i] = list[old(i)]
             /\ old(i) <= c <=> i <= c
  <2>1. CASE i <= c
    <3>1. i \in 1 .. c /\ i \in 1 .. L /\ old(i) = i
      BY <1>1, <1>2, <2>1
    <3> HIDE DEF old
    <3> QED
      BY <1>3, <2>1, <3>1
  <2>2. CASE ~ (i <= c)
    <3>1. i \in c + 2 .. L + 1 /\ i - 1 \in 1 .. L /\ old(i) = i - 1 /\ ~ (i - 1 <= c)
      BY <1>1, <1>2, <1>4, <2>2
    <3> HIDE DEF old
    <3> QED
      BY <1>3, <2>2, <3>1
  <2> QED
    BY <2>1, <2>2
<1>5. \A i, j \in 1 .. L + 1 : i # c + 1 /\ j # c + 1 /\ i < j => old(i) < old(j)
  BY <1>1, <1>2
<1>6. \A i \in 1 .. L : \E j \in 1 .. L + 1 : j # c + 1 /\ i = old(j)
  <2> SUFFICES ASSUME NEW i \in 1 .. L PROVE \E j \in 1 .. L + 1 : j # c + 1 /\ i = old(j)
    OBVIOUS
  <2> DEFINE j == IF i <= c THEN i ELSE i + 1
  <2>1. j \in 1 .. L + 1 /\ j # c + 1 /\ i = old(j)
    BY <1>1, <1>2
  <2> QED
    BY <2>1
<1>7. c + 1 \in 1 .. L + 1 /\ 1 .. N + 1 = 1 .. N \cup {N + 1}
  BY <1>1, <1>2
<1>8. {new[i].name : i \in 1 .. L + 1} = {came[i].name : i \in 1 .. N + 1}
  <2>1. {list[i].name : i \in 1 .. L} = {came[i].name : i \in 1 .. N}
    BY DEF StoredInv, L
  <2>2. {new[i].name : i \in 1 .. L + 1} = {list[i].name : i \in 1 .. L} \cup {field.name}
    <3> HIDE DEF old
    <3>1. ASSUME NEW i \in 1 .. L + 1
          PROVE  new[i].name \in {list[k].name : k \in 1 .. L} \cup {field.name}
      BY <1>3, <1>4
    <3>2. ASSUME NEW k \in 1 .. L
          PROVE  list[k].name \in {new[i].name : i \in 1 .. L + 1}
      <4>1. PICK j \in 1 .. L + 1 : j # c + 1 /\ k = old(j)
        BY <1>6
      <4> QED
        BY <1>4, <4>1
    <3>3. field.name \in {new[i].name : i \in 1 .. L + 1}
      BY <1>3, <1>7
    <3> QED
      BY <3>1, <3>2, <3>3
  <2> QED
    BY <1>7, <2>1, <2>2 DEF field
<1>9. Grouped(new)
  <2> SUFFICES ASSUME NEW i \in 1 .. L + 1, NEW j \in 1 .. L + 1, NEW k \in 1 .. L + 1,
                      i < j, j < k, new[i].name = new[k].name
               PROVE  new[j].name = new[i].name
    BY <1>3 DEF Grouped
  <2>1. \A a, b, d \in 1 .. L :
          a < b /\ b < d /\ list[a].name = list[d].name => list[b].name = list[a].name
    BY <1>1 DEF Grouped, L
  <2>2. CASE i = c + 1
    <3>1. k \in c + 2 .. L + 1 /\ k - 1 \in c + 1 .. L
      BY <1>1, <1>2, <2>2
    <3> QED
      BY <1>3, <2>2, <3>1
  <2>3. CASE k = c + 1
    <3>1. i \in 1 .. c /\ j \in 1 .. c /\ new[i] = list[i] /\ new[j] = list[j]
      BY <1>1, <1>2, <1>3, <2>3
    <3>2. c \in 1 .. L /\ list[c].name = field.name /\ list[i].name = field.name
      BY <1>1, <1>2, <1>3, <2>3, <3>1
    <3>3. CASE j = c
      BY <3>1, <3>2, <3>3
    <3>4. CASE j # c
      <4>1. i \in 1 .. L /\ j \in 1 .. L /\ j < c
        BY <1>1, <1>2, <3>1, <3>4
      <4> QED
        BY <2>1, <3>1, <3>2, <4>1
    <3> QED
      BY <3>3, <3>4
  <2>4. CASE i # c + 1 /\ k # c + 1 /\ j = c + 1
    <3>1. i \in 1 .. c /\ k - 1 \in c + 1 .. L /\ new[i] = list[i] /\ new[k] = list[k - 1]
      BY <1>1, <1>2, <1>3, <2>4
    <3>2. c \in 1 .. L /\ list[c].name = field.name
      BY <1>1, <1>2, <1>3, <3>1
    <3>3. CASE i = c
      BY <1>3, <2>4, <3>1, <3>2, <3>3
    <3>4. CASE i # c
      <4>1. i \in 1 .. L /\ k - 1 \in 1 .. L /\ i < c /\ c < k - 1
        BY <1>1, <1>2, <3>1, <3>4
      <4>2. list[c].name = list[i].name
        BY <2>1, <3>1, <3>2, <4>1
      <4> QED
        BY <1>3, <2>4, <3>1, <3>2, <4>2
    <3> QED
      BY <3>3, <3>4
  <2>5. CASE i # c + 1 /\ k # c + 1 /\ j # c + 1
    <3> HIDE DEF old
    <3> QED
      BY <1>4, <1>5, <2>1, <2>5
  <2> QED
    BY <2>2, <2>3, <2>4, <2>5
<1>10. \A i, j \in 1 .. L + 1 : i # c + 1 /\ j # c + 1 /\ old(i) < old(j) => i < j
  BY <1>1, <1>2
<1>11. FirstIsFirst(new, came, N + 1)
  <2> SUFFICES ASSUME NEW i \in 1 .. L + 1, FirstOf(new, i)
               PROVE  \E j \in 1 .. N + 1 :
                        /\ came[j] = new[i]
                        /\ \A k \in 1 .. N + 1 : came[k].name = new[i].name => j <= k
    BY <1>3 DEF FirstIsFirst
  <2>1. CASE i = c + 1
    <3>1. \A j \in 1 .. c : list[j].name # field.name
      <4> SUFFICES ASSUME NEW j \in 1 .. c PROVE list[j].name # field.name
        OBVIOUS
      <4>1. j \in 1 .. i - 1 /\ new[j] = list[j]
        BY <1>2, <1>3, <2>1
      <4> QED
        BY <1>3, <2>1, <4>1 DEF FirstOf
    <3>2. \A j \in 1 .. L : list[j].name # field.name
      BY <1>1, <1>2, <1>3, <3>1
    <3>3. \A k \in 1 .. N : came[k].name # field.name
      <4>1. {list[j].name : j \in 1 .. L} = {came[k].name : k \in 1 .. N}
        BY DEF StoredInv, L
      <4> QED
        BY <3>2, <4>1
    <3>4. \A k \in 1 .. N + 1 : came[k].name = new[i].name => N + 1 <= k
      BY <1>3, <1>7, <2>1, <3>3
    <3>5. N + 1 \in 1 .. N + 1 /\ came[N + 1] = new[i]
      BY <1>3, <2>1 DEF field
    <3> QED
      BY <3>4, <3>5
  <2>2. CASE i # c + 1
    <3> DEFINE o == old(i)
    <3>1. o \in 1 .. L /\ new[i] = list[o]
      BY <1>4, <2>2
    <3> HIDE DEF o
    <3>2. FirstOf(list, o)
      <4> SUFFICES ASSUME NEW m \in 1 .. o - 1 PROVE list[m].name # list[o].name
        BY DEF FirstOf
      <4>1. m \in 1 .. L /\ m < o
        BY <1>1, <3>1
      <4>2. PICK j \in 1 .. L + 1 : j # c + 1 /\ m = old(j)
        BY <1>6, <4>1
      <4>3. new[j] = list[m]
        <5> HIDE DEF old
        <5> QED
          BY <1>4, <4>2
      <4>4. j < i
        <5> HIDE DEF old
        <5> QED
          BY <1>10, <2>2, <4>1, <4>2 DEF o
      <4>5. j \in 1 .. i - 1
        BY <1>1, <4>2, <4>4
      <4> QED
        BY <3>1, <4>3, <4>5 DEF FirstOf
    <3>3. PICK j \in 1 .. N : /\ came[j] = list[o]
                              /\ \A k \in 1 .. N : came[k].name = list[o].name => j <= k
      BY <3>1, <3>2 DEF StoredInv, FirstIsFirst, L
    <3>4. j \in 1 .. N + 1 /\ \A k \in 1 .. N + 1 : came[k].name = new[i].name => j <= k
      BY <1>7, <3>1, <3>3
    <3> QED
      BY <3>1, <3>3, <3>4
  <2> QED
    BY <2>1, <2>2
<1>12. LastIsLast(new, came, N + 1)
  <2> SUFFICES ASSUME NEW i \in 1 .. L + 1, LastOf(new, i)
               PROVE  \E j \in 1 .. N + 1 :
                        /\ came[j] = new[i]
                        /\ \A k \in 1 .. N + 1 : came[k].name = new[i].name => k <= j
    BY <1>3 DEF LastIsLast
  <2>1. CASE i = c + 1
    <3>1. N + 1 \in 1 .. N + 1 /\ came[N + 1] = new[i]
      BY <1>3, <2>1 DEF field
    <3>2. \A k \in 1 .. N + 1 : k <= N + 1
      OBVIOUS
    <3> QED
      BY <3>1, <3>2
  <2>2. CASE i # c + 1
    <3> DEFINE o == old(i)
    <3>1. o \in 1 .. L /\ new[i] = list[o]
      BY <1>4, <2>2
    <3>2. new[i].name # field.name
      <4>1. CASE i < c + 1
        <5>1. c + 1 \in i + 1 .. Len(new)
          BY <1>1, <1>2, <1>3, <4>1
        <5> QED
          BY <1>3, <5>1 DEF LastOf
      <4>2. CASE i > c + 1
        <5>1. i \in c + 2 .. L + 1 /\ i - 1 \in c + 1 .. L
          BY <1>1, <1>2, <4>2
        <5> QED
          BY <1>3, <5>1
      <4> QED
        BY <1>1, <1>2, <2>2, <4>1, <4>2
    <3> HIDE DEF o
    <3>3. LastOf(list, o)
      <4> SUFFICES ASSUME NEW m \in o + 1 .. L PROVE list[m].name # list[o].name
        BY DEF LastOf, L
      <4>1. m \in 1 .. L /\ o < m
        BY <1>1, <3>1
      <4>2. PICK j \in 1 .. L + 1 : j # c + 1 /\ m = old(j)
        BY <1>6, <4>1
      <4>3. new[j] = list[m]
        <5> HIDE DEF old
        <5> QED
          BY <1>4, <4>2
      <4>4. i < j
        <5> HIDE DEF old
        <5> QED
          BY <1>10, <2>2, <4>1, <4>2 DEF o
      <4>5. j \in i + 1 .. Len(new)
        BY <1>1, <1>3, <4>2, <4>4
      <4> QED
        BY <3>1, <4>3, <4>5 DEF LastOf
    <3>4. PICK j \in 1 .. N : /\ came[j] = list[o]
                              /\ \A k \in 1 .. N : came[k].name = list[o].name => k <= j
      BY <3>1, <3>3 DEF StoredInv, LastIsLast, L
    <3>5. j \in 1 .. N + 1 /\ \A k \in 1 .. N + 1 : came[k].name = new[i].name => k <= j
      BY <1>7, <3>1, <3>2, <3>4 DEF field
    <3> QED
      BY <3>1, <3>4, <3>5
  <2> QED
    BY <2>1, <2>2
<1> QED
  BY <1>3, <1>8, <1>9, <1>11, <1>12 DEF StoredInv, new

(* The loop that inserts the fields, as far as its lists are grouped.      *)
Stores(list, came) ==
  /\ list[0] = <<>>
  /\ \A n \in 1 .. Len(came) :
       StoredInv(list[n - 1], came, n - 1) => list[n] = Insert(list[n - 1], came[n])

(* So it stays while fields are inserted one after another.                *)
LEMMA StoresKeeps ==
  ASSUME NEW came \in Seq(Named), NEW list, Stores(list, came)
  PROVE  \A n \in 0 .. Len(came) : StoredInv(list[n], came, n)
<1> DEFINE S == {n \in 0 .. Len(came) : StoredInv(list[n], came, n)}
<1>1. Len(came) \in Nat
  OBVIOUS
<1>2. StoredInv(list[0], came, 0)
  <2>1. list[0] = <<>> /\ <<>> \in Seq(Named) /\ Len(<<>>) = 0
    BY DEF Stores
  <2>2. 1 .. 0 = {}
    OBVIOUS
  <2> QED
    BY <2>1, <2>2 DEF StoredInv, Grouped, FirstIsFirst, LastIsLast
<1>3. ASSUME NEW n \in 1 .. Len(came), StoredInv(list[n - 1], came, n - 1)
      PROVE  StoredInv(list[n], came, n)
  <2>1. n - 1 \in Nat /\ (n - 1) + 1 = n /\ came[n] \in Named
    BY <1>1
  <2>2. list[n] = Insert(list[n - 1], came[n])
    BY <1>3 DEF Stores
  <2>3. StoredInv(Insert(list[n - 1], came[(n - 1) + 1]), came, (n - 1) + 1)
    BY <1>3, <2>1, InsertKeeps
  <2> QED
    BY <2>1, <2>2, <2>3
<1>4. Inductive(S, Len(came))
  BY <1>1, <1>2, <1>3 DEF Inductive
<1> HIDE DEF S
<1>5. \A n \in 0 .. Len(came) : n \in S
  BY <1>1, <1>4, UpTo
<1> QED
  BY <1>5 DEF S

(* And in full: Stored is its last value.                                  *)
StoredLoop(list, came) ==
  list = [n \in 0 .. Len(came) |->
            IF n = 0 THEN <<>> ELSE Insert(list[n - 1], came[n])]

(* Whatever comes, what is stored holds it grouped, in its order.          *)
LEMMA StoredGroups ==
  ASSUME NEW came \in Seq(Named)
  PROVE  StoredInv(Stored(came), came, Len(came))
<1> DEFINE N == Len(came)
           Acc == Seq(Named)
           step == [n \in 1 .. N |->
                      [a \in Acc |-> IF Grouped(a) THEN Insert(a, came[n]) ELSE a]]
<1>1. N \in Nat /\ <<>> \in Acc
  OBVIOUS
<1>2. \A n \in 1 .. N, a \in Acc : Grouped(a) => Insert(a, came[n]) \in Acc
  <2> SUFFICES ASSUME NEW n \in 1 .. N, NEW a \in Acc, Grouped(a)
               PROVE  Insert(a, came[n]) \in Acc
    OBVIOUS
  <2>1. came[n] \in Named
    OBVIOUS
  <2> QED
    BY <2>1, InsertPlace DEF InsertedAt
<1>3. step \in [1 .. N -> [Acc -> Acc]]
  BY <1>2
<1>4. PICK f : IsLoop(f, N, Acc, <<>>, step)
  <2> HIDE DEF step, Acc, N
  <2> QED
    BY <1>1, <1>3, LoopExists
<1>5. \A n \in 1 .. N : /\ f[n - 1] \in Seq(Named)
                        /\ Grouped(f[n - 1]) => f[n] = Insert(f[n - 1], came[n])
  <2> SUFFICES ASSUME NEW n \in 1 .. N
               PROVE  /\ f[n - 1] \in Seq(Named)
                      /\ Grouped(f[n - 1]) => f[n] = Insert(f[n - 1], came[n])
    OBVIOUS
  <2>1. f[n - 1] \in Acc /\ f[n] = step[n][f[n - 1]]
    <3> HIDE DEF Acc, step, N
    <3> QED
      BY <1>1, <1>4 DEF IsLoop
  <2> QED
    BY <2>1
<1>6. Stores(f, came)
  BY <1>4, <1>5 DEF Stores, StoredInv, IsLoop
<1>7. \A n \in 0 .. N : StoredInv(f[n], came, n)
  BY <1>6, StoresKeeps
<1>8. \A n \in 1 .. N : f[n] = Insert(f[n - 1], came[n])
  <2> SUFFICES ASSUME NEW n \in 1 .. N PROVE f[n] = Insert(f[n - 1], came[n])
    OBVIOUS
  <2>1. StoredInv(f[n - 1], came, n - 1)
    BY <1>1, <1>7
  <2> QED
    BY <1>5, <2>1 DEF StoredInv
<1>9. StoredLoop(f, came)
  <2>1. \A n \in 0 .. N : f[n] = IF n = 0 THEN <<>> ELSE Insert(f[n - 1], came[n])
    BY <1>1, <1>4, <1>8 DEF IsLoop
  <2>2. f = [n \in 0 .. N |-> f[n]]
    BY <1>4 DEF IsLoop
  <2> QED
    BY <2>1, <2>2 DEF StoredLoop
<1>10. PICK g : StoredLoop(g, came) /\ Stored(came) = g[N]
  <2>1. Stored(came) = (CHOOSE list : StoredLoop(list, came))[N]
    BY DEF Stored, StoredLoop
  <2> QED
    BY <1>9, <2>1
<1>11. Stores(g, came)
  BY <1>1, <1>10 DEF Stores, StoredLoop
<1> QED
  BY <1>1, <1>10, <1>11, StoresKeeps

-----------------------------------------------------------------------------
(* The loop over the fields.                                               *)
HeaderLoop(map, stored, memory) ==
  map = [n \in 0 .. Len(stored) |->
           IF n = 0 THEN Nothing
           ELSE Assigned(map[n - 1], FieldName(stored[n].name),
                         CString(stored[n].value, memory))]

(* Headers is the last value of its loop.                                  *)
LEMMA HeadersLoop ==
  ASSUME NEW came, NEW memory, Len(Stored(came)) \in Nat
  PROVE  \E map : /\ HeaderLoop(map, Stored(came), memory)
                  /\ Headers(came, memory) = map[Len(Stored(came))]
<1> DEFINE stored == Stored(came)
           N == Len(stored)
           name(n) == FieldName(stored[n].name)
           value(n) == CString(stored[n].value, memory)
           names == {name(n) : n \in 1 .. N}
           values == {value(n) : n \in 1 .. N}
           Acc == UNION {[D -> values] : D \in SUBSET names}
           step == [n \in 1 .. N |-> [a \in Acc |-> Assigned(a, name(n), value(n))]]
<1>1. Nothing \in Acc
  <2>1. Nothing \in [{} -> values] /\ {} \in SUBSET names
    BY DEF Nothing
  <2> HIDE DEF values, names
  <2> QED
    BY <2>1
<1>2. ASSUME NEW a \in Acc, NEW n \in 1 .. N
      PROVE  Assigned(a, name(n), value(n)) \in Acc
  <2> HIDE DEF name, value
  <2>1. PICK D \in SUBSET names : a \in [D -> values]
    OBVIOUS
  <2>2. D \cup {name(n)} \in SUBSET names
    OBVIOUS
  <2>3. Assigned(a, name(n), value(n)) \in [D \cup {name(n)} -> values]
    BY <2>1 DEF Assigned
  <2> QED
    BY <2>2, <2>3
<1> HIDE DEF Acc, name, value
<1>3. step \in [1 .. N -> [Acc -> Acc]]
  BY <1>2
<1>4. PICK f : IsLoop(f, N, Acc, Nothing, step)
  <2> HIDE DEF step, N
  <2> QED
    BY <1>1, <1>3, LoopExists DEF N
<1>5. \A n \in 1 .. N : f[n] = Assigned(f[n - 1], name(n), value(n))
  <2> SUFFICES ASSUME NEW n \in 1 .. N
               PROVE  f[n] = Assigned(f[n - 1], name(n), value(n))
    OBVIOUS
  <2>1. f[n - 1] \in Acc /\ f[n] = step[n][f[n - 1]]
    BY <1>4 DEF IsLoop
  <2> QED
    BY <2>1
<1>6. HeaderLoop(f, stored, memory)
  <2>1. \A n \in 0 .. N : f[n] = IF n = 0 THEN Nothing
                                ELSE Assigned(f[n - 1], name(n), value(n))
    BY <1>4, <1>5 DEF IsLoop
  <2>2. f = [n \in 0 .. N |-> f[n]]
    BY <1>4 DEF IsLoop
  <2> QED
    BY <2>1, <2>2 DEF HeaderLoop, name, value
<1>7. Headers(came, memory) = (CHOOSE map : HeaderLoop(map, stored, memory))[N]
  BY DEF Headers, HeaderLoop
<1> QED
  BY <1>6, <1>7

(* Under each name there is the value of the last that was stored.         *)
LEMMA LastStoredCounts ==
  ASSUME NEW came \in Seq(Named), NEW memory
  PROVE  LET stored == Stored(came)
             name(i) == FieldName(stored[i].name)
         IN  /\ DOMAIN Headers(came, memory) = {name(i) : i \in 1 .. Len(stored)}
             /\ \A i \in 1 .. Len(stored) :
                  (\A j \in i + 1 .. Len(stored) : name(j) # name(i))
                    => Headers(came, memory)[name(i)] = CString(stored[i].value, memory)
<1> DEFINE stored == Stored(came)
           N == Len(stored)
           name(i) == FieldName(stored[i].name)
           value(i) == CString(stored[i].value, memory)
<1>1. N \in Nat
  BY StoredGroups DEF StoredInv
<1>2. PICK map : HeaderLoop(map, stored, memory) /\ Headers(came, memory) = map[N]
  BY <1>1, HeadersLoop
<1> DEFINE P(n) == /\ DOMAIN map[n] = {name(i) : i \in 1 .. n}
                   /\ \A i \in 1 .. n :
                        (\A j \in i + 1 .. n : name(j) # name(i)) => map[n][name(i)] = value(i)
           S == {n \in 0 .. N : P(n)}
<1>3. map[0] = Nothing /\ \A n \in 1 .. N : map[n] = Assigned(map[n - 1], name(n), value(n))
  BY <1>1, <1>2 DEF HeaderLoop
<1> HIDE DEF stored, N, name, value
<1>4. P(0)
  BY <1>3 DEF Nothing
<1>5. ASSUME NEW n \in 1 .. N, P(n - 1) PROVE P(n)
  <2> DEFINE before == map[n - 1]
  <2>1. map[n] = Assigned(before, name(n), value(n))
    BY <1>3
  <2>2. DOMAIN before = {name(i) : i \in 1 .. n - 1}
    BY <1>5
  <2>3. 1 .. n = 1 .. n - 1 \cup {n}
    BY <1>1
  <2> HIDE DEF before
  <2>4. DOMAIN map[n] = {name(i) : i \in 1 .. n}
    BY <2>1, <2>2, <2>3 DEF Assigned
  <2>5. ASSUME NEW i \in 1 .. n, \A j \in i + 1 .. n : name(j) # name(i)
        PROVE  map[n][name(i)] = value(i)
    <3>1. CASE i = n
      BY <2>1, <3>1 DEF Assigned
    <3>2. CASE i # n
      <4>1. i \in 1 .. n - 1 /\ n \in i + 1 .. n /\ i + 1 .. n - 1 \subseteq i + 1 .. n
        BY <1>1, <3>2
      <4>2. before[name(i)] = value(i) /\ name(i) \in DOMAIN before /\ name(i) # name(n)
        BY <1>5, <2>2, <2>5, <4>1 DEF before
      <4> QED
        BY <2>1, <4>2 DEF Assigned
    <3> QED
      BY <3>1, <3>2
  <2> QED
    BY <2>4, <2>5
<1>6. Inductive(S, N)
  <2> HIDE DEF P
  <2> QED
    BY <1>1, <1>4, <1>5 DEF Inductive
<1>7. P(N)
  <2> HIDE DEF S
  <2>1. N \in S
    BY <1>1, <1>6, UpTo
  <2> QED
    BY <2>1 DEF S
<1> QED
  BY <1>2, <1>7 DEF stored, N, name, value

-----------------------------------------------------------------------------
(* The request as it grows.                                                *)

(* What a request is made of.                                              *)
RequestTypeOK ==
  /\ body \in Seq(Chars)
  /\ form \in Seq(Words \X Words)
  /\ fields \in Seq(Named)
  /\ params \in Seq(Named)

(* A request is made of characters, words and fields, however it grows.    *)
THEOREM RequestTypeInvariance == RequestSpec => []RequestTypeOK
<1>1. RequestInit => RequestTypeOK
  BY DEF RequestInit, RequestTypeOK
<1>2. RequestTypeOK /\ [RequestNext]_requestVars => RequestTypeOK'
  <2> SUFFICES ASSUME RequestTypeOK, [RequestNext]_requestVars
               PROVE  RequestTypeOK'
    OBVIOUS
  <2>1. CASE GrowBody
    BY <2>1 DEF GrowBody, RequestTypeOK
  <2>2. CASE GrowForm
    <3>1. PICK k \in Words, v \in Words : form' = Append(form, <<k, v>>)
      BY <2>2 DEF GrowForm
    <3> HIDE DEF Words
    <3> QED
      BY <2>2, <3>1 DEF GrowForm, RequestTypeOK
  <2>3. CASE GrowFields
    <3> HIDE DEF Named
    <3> QED
      BY <2>3 DEF GrowFields, RequestTypeOK
  <2>4. CASE GrowParams
    <3> HIDE DEF Named
    <3> QED
      BY <2>4 DEF GrowParams, RequestTypeOK
  <2>5. CASE UNCHANGED requestVars
    BY <2>5 DEF requestVars, RequestTypeOK
  <2> QED
    BY <2>1, <2>2, <2>3, <2>4, <2>5 DEF RequestNext
<1> QED
  BY <1>1, <1>2, PTL DEF RequestSpec

(* Of the parameters of a name one came first.                             *)
LEMMA FirstExists ==
  ASSUME NEW list \in Seq(Named), NEW name, name \in {list[i].name : i \in DOMAIN list}
  PROVE  \E i \in DOMAIN list : list[i].name = name /\ FirstOf(list, i)
<1> DEFINE T == {i \in DOMAIN list : list[i].name = name}
<1>1. T \in SUBSET Nat /\ T # {} /\ DOMAIN list = 1 .. Len(list) /\ Len(list) \in Nat
  OBVIOUS
<1>2. Min(T) \in T /\ \A x \in T : Min(T) <= x
  <2> HIDE DEF T
  <2> QED
    BY <1>1, MinIsLeast
<1>3. ASSUME NEW j \in 1 .. Min(T) - 1 PROVE list[j].name # name
  <2>1. j \in DOMAIN list /\ ~ (Min(T) <= j)
    BY <1>1, <1>2
  <2> QED
    BY <1>2, <2>1
<1> HIDE DEF T
<1>4. list[Min(T)].name = name /\ Min(T) \in DOMAIN list
  BY <1>2 DEF T
<1> QED
  BY <1>3, <1>4 DEF FirstOf

(* A parameter that follows changes none of those read before              *)
(* (http_request.h:49).                                                    *)
LEMMA ParamsStay ==
  ASSUME NEW list \in Seq(Named), NEW p \in Named
  PROVE  \A n \in DOMAIN QueryParams(list) :
           QueryParams(Append(list, p))[n] = QueryParams(list)[n]
<1> DEFINE more == Append(list, p)
<1> SUFFICES ASSUME NEW n \in DOMAIN QueryParams(list)
             PROVE  QueryParams(more)[n] = QueryParams(list)[n]
  OBVIOUS
<1>1. n \in {list[i].name : i \in DOMAIN list}
  BY FirstParamCounts
<1>2. PICK i \in DOMAIN list : list[i].name = n /\ FirstOf(list, i)
  BY <1>1, FirstExists
<1>3. QueryParams(list)[n] = list[i].value
  BY <1>2, FirstParamCounts DEF FirstOf
<1>4. /\ more \in Seq(Named) /\ i \in DOMAIN more
      /\ more[i] = list[i] /\ \A j \in 1 .. i - 1 : more[j] = list[j]
  <2>1. DOMAIN list = 1 .. Len(list) /\ Len(list) \in Nat
    OBVIOUS
  <2> HIDE DEF Named
  <2>2. more \in Seq(Named) /\ DOMAIN more = 1 .. Len(list) + 1
    BY <2>1
  <2>3. \A j \in 1 .. Len(list) : more[j] = list[j]
    BY <2>1
  <2> HIDE DEF more
  <2> QED
    BY <2>1, <2>2, <2>3
<1> HIDE DEF more
<1>5. QueryParams(more)[more[i].name] = more[i].value
  BY <1>2, <1>4, FirstParamCounts DEF FirstOf
<1> QED
  BY <1>2, <1>3, <1>4, <1>5

(* The content type is the first that came, whatever was stored between    *)
(* (http_request.h:40).                                                    *)
LEMMA ContentTypeIsFirst ==
  ASSUME NEW came \in Seq(Named), NEW m
  PROVE  LET types == {k \in 1 .. Len(came) : came[k].name = "content_type"}
         IN  IF types = {} THEN ContentTypeHeader(came, m) = <<>>
             ELSE \E j \in types : /\ \A k \in types : j <= k
                                   /\ ContentTypeHeader(came, m) = CString(came[j].value, m)
<1> DEFINE types == {k \in 1 .. Len(came) : came[k].name = "content_type"}
           stored == Stored(came)
           places == {i \in DOMAIN stored : stored[i].name = "content_type"}
<1>1. StoredInv(stored, came, Len(came)) /\ Len(came) \in Nat
  BY StoredGroups
<1> HIDE DEF stored
<1>2. /\ stored \in Seq(Named) /\ DOMAIN stored = 1 .. Len(stored) /\ Len(stored) \in Nat
      /\ {stored[i].name : i \in 1 .. Len(stored)} = {came[i].name : i \in 1 .. Len(came)}
  <2>1. stored \in Seq(Named)
    BY <1>1 DEF StoredInv
  <2>2. {stored[i].name : i \in 1 .. Len(stored)} = {came[i].name : i \in 1 .. Len(came)}
    BY <1>1 DEF StoredInv
  <2>3. DOMAIN stored = 1 .. Len(stored) /\ Len(stored) \in Nat
    BY <2>1
  <2> QED
    BY <2>1, <2>2, <2>3
<1>3. ContentTypeHeader(came, m)
        = IF places = {} THEN <<>> ELSE CString(stored[Min(places)].value, m)
  BY DEF ContentTypeHeader, stored
<1>4. places = {} <=> types = {}
  <2>1. places = {} <=> "content_type" \notin {stored[i].name : i \in 1 .. Len(stored)}
    BY <1>2
  <2>2. types = {} <=> "content_type" \notin {came[i].name : i \in 1 .. Len(came)}
    OBVIOUS
  <2> QED
    BY <1>2, <2>1, <2>2
<1>5. CASE types = {}
  BY <1>3, <1>4, <1>5
<1>6. CASE types # {}
  <2>1. places \in SUBSET Nat /\ places # {}
    BY <1>2, <1>4, <1>6
  <2> DEFINE i == Min(places)
  <2>2. i \in places /\ \A x \in places : i <= x
    <3> HIDE DEF places
    <3> QED
      BY <2>1, MinIsLeast
  <2> HIDE DEF i
  <2>3. i \in 1 .. Len(stored) /\ stored[i].name = "content_type"
    BY <1>2, <2>2
  <2>4. FirstOf(stored, i)
    <3> SUFFICES ASSUME NEW j \in 1 .. i - 1 PROVE stored[j].name # stored[i].name
      BY DEF FirstOf
    <3>1. j \in DOMAIN stored /\ ~ (i <= j)
      BY <1>2, <2>3
    <3> QED
      BY <2>2, <2>3, <3>1
  <2>5. PICK j \in 1 .. Len(came) :
          /\ came[j] = stored[i]
          /\ \A k \in 1 .. Len(came) : came[k].name = stored[i].name => j <= k
    BY <1>1, <2>3, <2>4 DEF StoredInv, FirstIsFirst
  <2>6. j \in types /\ \A k \in types : j <= k
    BY <2>3, <2>5
  <2>7. ContentTypeHeader(came, m) = CString(came[j].value, m)
    BY <1>3, <2>1, <2>5 DEF i
  <2> QED
    BY <1>6, <2>6, <2>7
<1> QED
  BY <1>5, <1>6

(* A value's C string begins with the value, whatever follows it in        *)
(* memory.                                                                 *)
LEMMA HeadOfCString ==
  ASSUME NEW value, NEW m \in Memory
  PROVE  CString(value, m) # <<>> /\ Head(CString(value, m)) = value
<1>1. CASE m = <<>>
  BY <1>1 DEF CString
<1>2. CASE m = <<"1">>
  BY <1>2 DEF CString
<1> QED
  BY <1>1, <1>2 DEF Memory

(* A field that follows does not change the content type's value.          *)
LEMMA ContentTypeStays ==
  ASSUME NEW list \in Seq(Named), NEW f \in Named, NEW m \in Memory, NEW n \in Memory,
         ContentTypeHeader(list, m) # <<>>
  PROVE  Head(ContentTypeHeader(Append(list, f), n)) = Head(ContentTypeHeader(list, m))
<1> DEFINE more == Append(list, f)
           types(l) == {k \in 1 .. Len(l) : l[k].name = "content_type"}
<1>1. /\ more \in Seq(Named) /\ Len(list) \in Nat /\ Len(more) = Len(list) + 1
      /\ \A k \in 1 .. Len(list) : more[k] = list[k]
  <2> HIDE DEF Named
  <2> QED
    OBVIOUS
<1> HIDE DEF more
<1>2. PICK j \in types(list) : /\ \A k \in types(list) : j <= k
                               /\ ContentTypeHeader(list, m) = CString(list[j].value, m)
  BY ContentTypeIsFirst
<1>3. j \in types(more)
  BY <1>1, <1>2
<1>4. PICK h \in types(more) : /\ \A k \in types(more) : h <= k
                               /\ ContentTypeHeader(more, n) = CString(more[h].value, n)
  BY <1>1, <1>3, ContentTypeIsFirst
<1>5. h = j
  <2>1. h <= j /\ h \in 1 .. Len(list)
    BY <1>1, <1>2, <1>3, <1>4
  <2>2. h \in types(list)
    BY <1>1, <1>4, <2>1
  <2> QED
    BY <1>1, <1>2, <2>1, <2>2
<1>6. more[h].value = list[j].value
  BY <1>1, <1>2, <1>5
<1>7. Head(ContentTypeHeader(list, m)) = list[j].value
  BY <1>2, HeadOfCString
<1>8. Head(ContentTypeHeader(more, n)) = more[h].value
  BY <1>4, HeadOfCString
<1> QED
  BY <1>6, <1>7, <1>8 DEF more

(* The map has just the names of the fields, and under each the latest     *)
(* value of a field that has it (http_request.h:43-45).                    *)
LEMMA HeadersAreLatest ==
  ASSUME NEW came \in Seq(Named), NEW m \in Memory
  PROVE  HeadersLatest(came, m)
<1> DEFINE stored == Stored(came)
           N == Len(stored)
           name(i) == FieldName(stored[i].name)
           headers == Headers(came, m)
<1>1. StoredInv(stored, came, Len(came)) /\ Len(came) \in Nat /\ DOMAIN came = 1 .. Len(came)
  BY StoredGroups
<1>2. /\ DOMAIN headers = {name(i) : i \in 1 .. N}
      /\ \A i \in 1 .. N :
           (\A j \in i + 1 .. N : name(j) # name(i))
             => headers[name(i)] = CString(stored[i].value, m)
  BY LastStoredCounts
<1>3. N \in Nat /\ {stored[i].name : i \in 1 .. N} = {came[i].name : i \in 1 .. Len(came)}
  <2>1. stored \in Seq(Named)
    BY <1>1 DEF StoredInv
  <2>2. {stored[i].name : i \in 1 .. N} = {came[i].name : i \in 1 .. Len(came)}
    BY <1>1 DEF StoredInv
  <2>3. N \in Nat
    BY <2>1
  <2> QED
    BY <2>2, <2>3
<1> HIDE DEF stored, N, headers
<1>4. DOMAIN headers = {FieldName(f.name) : f \in ToSet(came)}
  <2>1. ToSet(came) = {came[i] : i \in 1 .. Len(came)}
    BY <1>1 DEF ToSet
  <2>2. {name(i) : i \in 1 .. N} = {FieldName(x) : x \in {stored[i].name : i \in 1 .. N}}
    OBVIOUS
  <2>3. {FieldName(f.name) : f \in ToSet(came)}
          = {FieldName(x) : x \in {came[i].name : i \in 1 .. Len(came)}}
    BY <2>1
  <2> QED
    BY <1>2, <1>3, <2>2, <2>3
<1>5. ASSUME NEW n \in DOMAIN headers
      PROVE  \E i \in DOMAIN came : /\ Latest(came, i)
                                    /\ FieldName(came[i].name) = n
                                    /\ Head(headers[n]) = came[i].value
  <2> DEFINE S == {i \in 1 .. N : name(i) = n}
  <2>1. S \in SUBSET (1 .. N) /\ S # {}
    BY <1>2
  <2>2. PICK i \in S : \A j \in S : j <= i
    <3> HIDE DEF S
    <3> QED
      BY <1>3, <2>1, LastExists
  <2>3. i \in 1 .. N /\ name(i) = n
    BY <2>2
  <2>4. \A j \in i + 1 .. N : name(j) # name(i)
    <3> SUFFICES ASSUME NEW j \in i + 1 .. N PROVE name(j) # name(i)
      OBVIOUS
    <3>1. j \in 1 .. N /\ ~ (j <= i)
      BY <1>3, <2>3
    <3> QED
      BY <2>2, <2>3, <3>1
  <2>5. LastOf(stored, i)
    BY <2>4 DEF LastOf, N
  <2>6. PICK j \in 1 .. Len(came) :
          /\ came[j] = stored[i]
          /\ \A k \in 1 .. Len(came) : came[k].name = stored[i].name => k <= j
    BY <1>1, <2>3, <2>5 DEF StoredInv, LastIsLast, N
  <2>7. headers[n] = CString(came[j].value, m)
    BY <1>2, <2>3, <2>4, <2>6
  <2>8. Latest(came, j)
    BY <1>1, <2>6 DEF Latest
  <2>9. FieldName(came[j].name) = n /\ j \in DOMAIN came
    BY <1>1, <2>3, <2>6
  <2>10. Head(headers[n]) = came[j].value
    BY <2>7, HeadOfCString
  <2> QED
    BY <2>8, <2>9, <2>10
<1> QED
  BY <1>4, <1>5 DEF HeadersLatest, headers

(* However a request grows, its parameters and its content type stay what  *)
(* they were, and its headers are the latest: for any names, values and    *)
(* numbers of them (http_request.h:40-51).                                 *)
THEOREM LatestAlwaysCounts == RequestSpec => LatestCounts
<1> DEFINE Step ==
      /\ \A p \in DOMAIN QueryParams(params) :
           QueryParams(params')[p] = QueryParams(params)[p]
      /\ \A m, n \in Memory :
           ContentTypeHeader(fields, m) # <<>>
             => Head(ContentTypeHeader(fields', n)) = Head(ContentTypeHeader(fields, m))
      /\ \A m \in Memory : HeadersLatest(fields', m)
<1>1. RequestTypeOK /\ RequestTypeOK' /\ [RequestNext]_requestVars => [Step]_requestVars
  <2> SUFFICES ASSUME RequestTypeOK, RequestTypeOK', RequestNext
               PROVE  Step
    OBVIOUS
  <2>1. params \in Seq(Named) /\ fields \in Seq(Named) /\ fields' \in Seq(Named)
    BY DEF RequestTypeOK, Named
  <2>2. params' = params \/ \E p \in Named : params' = Append(params, p)
    BY DEF RequestNext, GrowBody, GrowForm, GrowFields, GrowParams
  <2>3. fields' = fields \/ \E f \in Named : fields' = Append(fields, f)
    BY DEF RequestNext, GrowBody, GrowForm, GrowFields, GrowParams
  <2>4. \A p \in DOMAIN QueryParams(params) :
          QueryParams(params')[p] = QueryParams(params)[p]
    BY <2>1, <2>2, ParamsStay
  <2>5. ASSUME NEW m \in Memory, NEW n \in Memory, ContentTypeHeader(fields, m) # <<>>
        PROVE  Head(ContentTypeHeader(fields', n)) = Head(ContentTypeHeader(fields, m))
    <3>1. CASE fields' = fields
      <4>1. PICK v : ContentTypeHeader(fields, m) = CString(v, m)
                     /\ ContentTypeHeader(fields, n) = CString(v, n)
        BY <2>5 DEF ContentTypeHeader
      <4> QED
        BY <3>1, <4>1, HeadOfCString
    <3>2. CASE \E f \in Named : fields' = Append(fields, f)
      BY <2>1, <2>5, <3>2, ContentTypeStays
    <3> QED
      BY <2>3, <3>1, <3>2
  <2>6. \A m \in Memory : HeadersLatest(fields', m)
    BY <2>1, HeadersAreLatest
  <2> QED
    BY <2>4, <2>5, <2>6
<1> QED
  BY <1>1, RequestTypeInvariance, PTL DEF RequestSpec, LatestCounts

-----------------------------------------------------------------------------
(* What SubSeq takes out of a text, from behind a to b.                    *)
LEMMA Piece ==
  ASSUME NEW C, NEW text \in Seq(C), NEW a \in 0 .. Len(text), NEW b \in a .. Len(text)
  PROVE  /\ SubSeq(text, a + 1, b) \in Seq(C)
         /\ Len(SubSeq(text, a + 1, b)) = b - a
         /\ \A i \in 1 .. b - a : SubSeq(text, a + 1, b)[i] = text[a + i]
<1>1. /\ Len(text) \in Nat /\ a \in Int /\ a + 1 \in Int /\ b \in Int
      /\ \A i \in a + 1 .. b : text[i] \in C
  OBVIOUS
<1>2. /\ SubSeq(text, a + 1, b) \in Seq(C)
      /\ Len(SubSeq(text, a + 1, b)) = IF a + 1 <= b THEN b - (a + 1) + 1 ELSE 0
      /\ \A i \in 1 .. b - (a + 1) + 1 : SubSeq(text, a + 1, b)[i] = text[(a + 1) + i - 1]
  BY <1>1, SubSeqProperties
<1>3. /\ b - (a + 1) + 1 = b - a /\ ~ (a + 1 <= b) => b - a = 0
      /\ \A i \in 1 .. b - a : (a + 1) + i - 1 = a + i
  BY <1>1
<1> QED
  BY <1>2, <1>3

(* A text with the characters of a piece is that piece.                    *)
LEMMA PieceIs ==
  ASSUME NEW C, NEW text \in Seq(C), NEW a \in 0 .. Len(text), NEW b \in a .. Len(text),
         NEW s \in Seq(C), Len(s) = b - a, \A i \in 1 .. b - a : s[i] = text[a + i]
  PROVE  s = SubSeq(text, a + 1, b)
<1> DEFINE t == SubSeq(text, a + 1, b)
<1>1. t \in Seq(C) /\ Len(t) = b - a /\ \A i \in 1 .. b - a : t[i] = text[a + i]
  BY Piece
<1> HIDE DEF t
<1>2. Len(s) = Len(t) /\ \A i \in 1 .. Len(s) : s[i] = t[i]
  BY <1>1
<1>3. s = t
  BY <1>1, <1>2, SeqEqual
<1> QED
  BY <1>3 DEF t

(* One more character makes a piece longer by it.                          *)
LEMMA PieceGrows ==
  ASSUME NEW C, NEW text \in Seq(C), NEW n \in 1 .. Len(text), NEW a \in 0 .. n - 1
  PROVE  Append(SubSeq(text, a + 1, n - 1), text[n]) = SubSeq(text, a + 1, n)
<1> DEFINE s == SubSeq(text, a + 1, n - 1)
<1>1. /\ Len(text) \in Nat /\ a \in 0 .. Len(text) /\ n - 1 \in a .. Len(text)
      /\ n \in a .. Len(text) /\ text[n] \in C
  OBVIOUS
<1>2. /\ s \in Seq(C) /\ Len(s) = n - 1 - a
      /\ \A i \in 1 .. n - 1 - a : s[i] = text[a + i]
  BY <1>1, Piece
<1> HIDE DEF s
<1>3. /\ Append(s, text[n]) \in Seq(C) /\ Len(Append(s, text[n])) = n - a
      /\ \A i \in 1 .. n - 1 - a : Append(s, text[n])[i] = text[a + i]
      /\ Append(s, text[n])[n - a] = text[n]
  BY <1>1, <1>2
<1>4. \A i \in 1 .. n - a : i \in 1 .. n - 1 - a \/ (i = n - a /\ a + i = n)
  BY <1>1
<1>5. \A i \in 1 .. n - a : Append(s, text[n])[i] = text[a + i]
  BY <1>3, <1>4
<1>6. Append(s, text[n]) = SubSeq(text, a + 1, n)
  BY <1>1, <1>3, <1>5, PieceIs
<1> QED
  BY <1>6 DEF s

(* From a to b, exclusive, there is no separator in the first n characters *)
(* of a text, and it stands at a and at b, unless there the text ends.     *)
IsGap(text, c, n, a, b) ==
  /\ a \in 0 .. n /\ b \in a + 1 .. n + 1
  /\ a = 0 \/ text[a] = c
  /\ b = n + 1 \/ text[b] = c
  /\ \A i \in a + 1 .. b - 1 : text[i] # c

(* A character that is no separator makes the last gap longer.             *)
LEMMA GapsWithout ==
  ASSUME NEW text, NEW c, NEW n \in Nat \ {0}, text[n] # c, NEW a, NEW b
  PROVE  IsGap(text, c, n, a, b) <=> \/ IsGap(text, c, n - 1, a, b) /\ b # n
                                     \/ IsGap(text, c, n - 1, a, n) /\ b = n + 1
BY DEF IsGap

(* A separator ends the last gap, and another begins behind it.            *)
LEMMA GapsWith ==
  ASSUME NEW text, NEW c, NEW n \in Nat \ {0}, text[n] = c, NEW a, NEW b
  PROVE  IsGap(text, c, n, a, b) <=> IsGap(text, c, n - 1, a, b) \/ (a = n /\ b = n + 1)
BY DEF IsGap

(* tokens are the pieces of the first n characters between from and upto.  *)
Pieces(tokens, from, upto, text, c, n) ==
  /\ upto[Len(tokens)] = n + 1
  /\ \A i \in 1 .. Len(tokens) : /\ IsGap(text, c, n, from[i], upto[i])
                                 /\ tokens[i] = SubSeq(text, from[i] + 1, upto[i] - 1)
  /\ \A i, j \in 1 .. Len(tokens) : i < j => upto[i] <= from[j]

(* Only empty pieces may be missing among them,                            *)
Complete(tokens, from, upto, text, c, n) ==
  \A a \in 0 .. n, b \in 1 .. n + 1 :
    IsGap(text, c, n, a, b) /\ b # a + 1
      => \E i \in 1 .. Len(tokens) : from[i] = a /\ upto[i] = b

(* and none where separators are not compressed: each begins a token.      *)
Apart(tokens, from, upto, text, c, n) ==
  \A q \in 1 .. n : text[q] = c => \E i \in 1 .. Len(tokens) - 1 : upto[i] = q /\ from[i + 1] = q

(* Lists of tokens.                                                        *)
Tokens(C) == {t \in Seq(Seq(C)) : Len(t) >= 1}

(* What the loop of Split keeps: after n characters it has their tokens.   *)
SplitInv(tokens, C, text, c, compress, n) ==
  /\ tokens \in Tokens(C)
  /\ \E from, upto : /\ Pieces(tokens, from, upto, text, c, n)
                     /\ Complete(tokens, from, upto, text, c, n)
                     /\ ~ compress => Apart(tokens, from, upto, text, c, n)

(* The loop's body.                                                        *)
NextTokens(before, text, c, compress, n) ==
  IF text[n] # c
  THEN [before EXCEPT ![Len(before)] = Append(@, text[n])]
  ELSE IF compress /\ n > 1 /\ text[n - 1] = c THEN before
  ELSE Append(before, <<>>)

(* The loop's body keeps the list of tokens a list of tokens, never empty. *)
LEMMA NextIsTokens ==
  ASSUME NEW C, NEW text \in Seq(C), NEW c, NEW compress, NEW n \in 1 .. Len(text),
         NEW before \in Tokens(C)
  PROVE  NextTokens(before, text, c, compress, n) \in Tokens(C)
<1>1. before \in Seq(Seq(C)) /\ Len(before) \in Nat /\ Len(before) >= 1 /\ text[n] \in C
  BY DEF Tokens
<1>2. [before EXCEPT ![Len(before)] = Append(@, text[n])] \in Tokens(C)
  <2> DEFINE L == Len(before)
             s == before[L]
             new == [before EXCEPT ![L] = Append(s, text[n])]
  <2>1. s \in Seq(C) /\ L \in 1 .. Len(before)
    BY <1>1
  <2>2. Append(s, text[n]) \in Seq(C)
    BY <1>1, <2>1
  <2>3. new \in Seq(Seq(C)) /\ Len(new) = L
    <3> HIDE DEF s
    <3> DEFINE t == Append(s, text[n])
    <3>1. t \in Seq(C)
      BY <2>2
    <3> HIDE DEF t
    <3> QED
      BY <1>1, <2>1, <3>1 DEF t
  <2> QED
    BY <1>1, <2>3 DEF Tokens
<1>3. Append(before, <<>>) \in Tokens(C)
  <2>1. <<>> \in Seq(C)
    OBVIOUS
  <2> QED
    BY <1>1, <2>1 DEF Tokens
<1> QED
  BY <1>2, <1>3 DEF NextTokens

(* Before the first character there is one token, empty.                   *)
LEMMA SplitFirst ==
  ASSUME NEW C, NEW text \in Seq(C), NEW c, NEW compress
  PROVE  SplitInv(<< <<>> >>, C, text, c, compress, 0)
<1> DEFINE tokens == << <<>> >>
           from == [i \in 1 .. 1 |-> 0]
           upto == [i \in 1 .. 1 |-> 1]
<1>1. tokens \in Tokens(C) /\ Len(tokens) = 1 /\ tokens[1] = <<>>
  BY DEF Tokens
<1>2. from[1] = 0 /\ upto[1] = 1
  OBVIOUS
<1> HIDE DEF tokens, from, upto
<1>3. SubSeq(text, from[1] + 1, upto[1] - 1) = <<>>
  <2>1. SubSeq(text, 1, 0) = <<>>
    BY SubSeqEmpty
  <2>2. from[1] + 1 = 1 /\ upto[1] - 1 = 0
    BY <1>2
  <2> QED
    BY <2>1, <2>2
<1>4. Pieces(tokens, from, upto, text, c, 0)
  <2>1. IsGap(text, c, 0, 0, 1)
    BY DEF IsGap
  <2>2. \A i \in 1 .. 1 : i = 1
    OBVIOUS
  <2>3. upto[Len(tokens)] = 0 + 1
    BY <1>1, <1>2
  <2>4. \A i \in 1 .. Len(tokens) : /\ IsGap(text, c, 0, from[i], upto[i])
                                     /\ tokens[i] = SubSeq(text, from[i] + 1, upto[i] - 1)
    BY <1>1, <1>2, <1>3, <2>1, <2>2
  <2>5. \A i, j \in 1 .. Len(tokens) : ~ (i < j)
    BY <1>1
  <2> QED
    BY <2>3, <2>4, <2>5 DEF Pieces
<1>5. Complete(tokens, from, upto, text, c, 0)
  BY DEF Complete
<1>6. Apart(tokens, from, upto, text, c, 0)
  BY DEF Apart
<1> QED
  BY <1>1, <1>4, <1>5, <1>6 DEF SplitInv, tokens

(* A character goes to the last token, whose gap ends behind it.           *)
LEMMA SplitCharacter ==
  ASSUME NEW C, NEW text \in Seq(C), NEW c, NEW compress, NEW n \in 1 .. Len(text),
         NEW before, SplitInv(before, C, text, c, compress, n - 1), text[n] # c
  PROVE  SplitInv(NextTokens(before, text, c, compress, n), C, text, c, compress, n)
<1> DEFINE L == Len(before)
           new == NextTokens(before, text, c, compress, n)
<1>1. PICK from, upto : /\ Pieces(before, from, upto, text, c, n - 1)
                        /\ Complete(before, from, upto, text, c, n - 1)
                        /\ ~ compress => Apart(before, from, upto, text, c, n - 1)
  BY DEF SplitInv
<1>2. /\ before \in Tokens(C) /\ new \in Tokens(C)
      /\ L \in Nat /\ L >= 1 /\ L \in 1 .. L /\ n \in Nat \ {0} /\ (n - 1) + 1 = n
  BY NextIsTokens DEF SplitInv, Tokens
<1> DEFINE until == [i \in 1 .. L |-> IF i = L THEN n + 1 ELSE upto[i]]
<1>3. /\ Len(new) = L
      /\ new[L] = Append(before[L], text[n])
      /\ \A i \in 1 .. L : i # L => new[i] = before[i]
  <2>1. before \in Seq(Seq(C)) /\ DOMAIN before = 1 .. L
    BY DEF SplitInv, Tokens
  <2>2. new = [before EXCEPT ![L] = Append(before[L], text[n])]
    BY DEF NextTokens
  <2>3. new \in Seq(Seq(C)) /\ DOMAIN new = 1 .. L
    BY <1>2, <2>1, <2>2 DEF Tokens
  <2> HIDE DEF new
  <2>4. Len(new) = L
    BY <1>2, <2>3
  <2> QED
    BY <1>2, <2>1, <2>2, <2>4
<1> HIDE DEF new, L
<1>4. /\ upto[L] = n
      /\ \A i \in 1 .. L : /\ IsGap(text, c, n - 1, from[i], upto[i])
                           /\ before[i] = SubSeq(text, from[i] + 1, upto[i] - 1)
      /\ \A i, j \in 1 .. L : i < j => upto[i] <= from[j]
  BY <1>1, <1>2 DEF Pieces, L
<1>5. \A i \in 1 .. L : from[i] \in 0 .. n - 1 /\ upto[i] \in from[i] + 1 .. n
  BY <1>2, <1>4 DEF IsGap
<1>6. until[L] = n + 1 /\ \A i \in 1 .. L : i # L => until[i] = upto[i] /\ upto[i] # n
  <2> SUFFICES ASSUME NEW i \in 1 .. L, i # L PROVE upto[i] # n
    BY <1>2
  <2>1. i < L /\ upto[i] <= from[L]
    BY <1>2, <1>4
  <2> QED
    BY <1>2, <1>5, <2>1
<1> HIDE DEF until
<1>7. Pieces(new, from, until, text, c, n)
  <2>1. ASSUME NEW i \in 1 .. L
        PROVE  /\ IsGap(text, c, n, from[i], until[i])
               /\ new[i] = SubSeq(text, from[i] + 1, until[i] - 1)
    <3>1. IsGap(text, c, n - 1, from[i], upto[i])
      BY <1>4
    <3>2. CASE i = L
      <4>1. IsGap(text, c, n, from[i], n + 1)
        BY <1>2, <1>4, <3>1, <3>2, GapsWithout
      <4>2. before[L] = SubSeq(text, from[L] + 1, n - 1) /\ from[L] \in 0 .. n - 1
        BY <1>2, <1>4, <1>5
      <4>3. Append(before[L], text[n]) = SubSeq(text, from[L] + 1, n)
        BY <4>2, PieceGrows
      <4>4. until[i] = n + 1 /\ until[i] - 1 = n
        BY <1>2, <1>6, <3>2
      <4> QED
        BY <1>3, <3>2, <4>1, <4>3, <4>4
    <3>3. CASE i # L
      <4>1. until[i] = upto[i] /\ upto[i] # n
        BY <1>6, <3>3
      <4>2. IsGap(text, c, n, from[i], upto[i])
        BY <1>2, <3>1, <4>1, GapsWithout
      <4> QED
        BY <1>3, <1>4, <3>3, <4>1, <4>2
    <3> QED
      BY <3>2, <3>3
  <2>2. ASSUME NEW i \in 1 .. L, NEW j \in 1 .. L, i < j PROVE until[i] <= from[j]
    BY <1>2, <1>4, <1>6, <2>2
  <2> QED
    BY <1>3, <1>6, <2>1, <2>2 DEF Pieces
<1>8. Complete(new, from, until, text, c, n)
  <2> SUFFICES ASSUME NEW a \in 0 .. n, NEW b \in 1 .. n + 1,
                      IsGap(text, c, n, a, b), b # a + 1
               PROVE  \E i \in 1 .. L : from[i] = a /\ until[i] = b
    BY <1>3 DEF Complete
  <2>1. CASE IsGap(text, c, n - 1, a, b) /\ b # n
    <3>1. a \in 0 .. n - 1 /\ b \in 1 .. (n - 1) + 1
      BY <1>2, <2>1 DEF IsGap
    <3>2. PICK i \in 1 .. L : from[i] = a /\ upto[i] = b
      BY <1>1, <2>1, <3>1 DEF Complete, L
    <3>3. i # L
      BY <1>4, <2>1, <3>2
    <3> QED
      BY <1>6, <3>2, <3>3
  <2>2. CASE IsGap(text, c, n - 1, a, n) /\ b = n + 1
    <3>1. IsGap(text, c, n - 1, from[L], n)
      BY <1>2, <1>4
    <3>2. from[L] = a
      BY <1>2, <2>2, <3>1 DEF IsGap
    <3> QED
      BY <1>2, <1>6, <2>2, <3>2
  <2> QED
    BY <1>2, <2>1, <2>2, GapsWithout
<1>9. ASSUME ~ compress PROVE Apart(new, from, until, text, c, n)
  <2> SUFFICES ASSUME NEW q \in 1 .. n, text[q] = c
               PROVE  \E i \in 1 .. L - 1 : until[i] = q /\ from[i + 1] = q
    BY <1>3 DEF Apart
  <2>1. q \in 1 .. n - 1
    BY <1>2
  <2>2. PICK i \in 1 .. L - 1 : upto[i] = q /\ from[i + 1] = q
    BY <1>1, <1>9, <2>1 DEF Apart, L
  <2>3. i \in 1 .. L /\ i # L
    BY <1>2
  <2> QED
    BY <1>6, <2>2, <2>3
<1> QED
  BY <1>2, <1>7, <1>8, <1>9 DEF SplitInv, new

(* Of separators side by side the later ones move the last token's gap,    *)
(* which is empty and stays so.                                            *)
LEMMA SplitCompressed ==
  ASSUME NEW C, NEW text \in Seq(C), NEW c, NEW compress, NEW n \in 1 .. Len(text),
         NEW before, SplitInv(before, C, text, c, compress, n - 1),
         text[n] = c, compress, n > 1, text[n - 1] = c
  PROVE  SplitInv(NextTokens(before, text, c, compress, n), C, text, c, compress, n)
<1> DEFINE L == Len(before)
<1>1. PICK from, upto : /\ Pieces(before, from, upto, text, c, n - 1)
                        /\ Complete(before, from, upto, text, c, n - 1)
  BY DEF SplitInv
<1>2. /\ before \in Tokens(C) /\ NextTokens(before, text, c, compress, n) = before
      /\ L \in Nat /\ L >= 1 /\ L \in 1 .. L /\ n \in Nat \ {0} /\ (n - 1) + 1 = n
  BY DEF SplitInv, Tokens, NextTokens
<1> DEFINE since == [i \in 1 .. L |-> IF i = L THEN n ELSE from[i]]
           until == [i \in 1 .. L |-> IF i = L THEN n + 1 ELSE upto[i]]
<1> HIDE DEF L
<1>3. /\ upto[L] = n
      /\ \A i \in 1 .. L : /\ IsGap(text, c, n - 1, from[i], upto[i])
                           /\ before[i] = SubSeq(text, from[i] + 1, upto[i] - 1)
      /\ \A i, j \in 1 .. L : i < j => upto[i] <= from[j]
  BY <1>1, <1>2 DEF Pieces, L
<1>4. from[L] = n - 1
  <2>1. IsGap(text, c, n - 1, from[L], n)
    BY <1>2, <1>3
  <2> QED
    BY <1>2, <2>1 DEF IsGap
<1>5. /\ since[L] = n /\ until[L] = n + 1
      /\ \A i \in 1 .. L : i # L => since[i] = from[i] /\ until[i] = upto[i]
  BY <1>2
<1> HIDE DEF since, until
<1>6. Pieces(before, since, until, text, c, n)
  <2>1. ASSUME NEW i \in 1 .. L
        PROVE  /\ IsGap(text, c, n, since[i], until[i])
               /\ before[i] = SubSeq(text, since[i] + 1, until[i] - 1)
    <3>1. CASE i = L
      <4>1. IsGap(text, c, n, n, n + 1)
        BY <1>2, GapsWith
      <4>2. from[L] + 1 = n /\ upto[L] - 1 = n - 1 /\ since[L] + 1 = n + 1 /\ until[L] - 1 = n
        BY <1>2, <1>3, <1>4, <1>5
      <4>3. SubSeq(text, n, n - 1) = <<>> /\ SubSeq(text, n + 1, n) = <<>>
        BY <1>2, SubSeqEmpty
      <4>4. before[L] = SubSeq(text, from[L] + 1, upto[L] - 1)
        BY <1>2, <1>3
      <4>5. before[L] = SubSeq(text, since[L] + 1, until[L] - 1)
        BY <4>2, <4>3, <4>4
      <4> QED
        BY <1>5, <3>1, <4>1, <4>5
    <3>2. CASE i # L
      <4>1. IsGap(text, c, n, from[i], upto[i])
        BY <1>2, <1>3, GapsWith
      <4> QED
        BY <1>3, <1>5, <3>2, <4>1
    <3> QED
      BY <3>1, <3>2
  <2>2. ASSUME NEW i \in 1 .. L, NEW j \in 1 .. L, i < j PROVE until[i] <= since[j]
    <3>1. i # L /\ until[i] = upto[i] /\ upto[i] <= from[j]
      BY <1>2, <1>3, <1>5, <2>2
    <3>2. from[j] <= since[j] /\ from[j] \in Nat /\ since[j] \in Nat /\ upto[i] \in Nat
      <4>1. from[j] \in Nat /\ upto[i] \in Nat
        <5>1. IsGap(text, c, n - 1, from[i], upto[i]) /\ IsGap(text, c, n - 1, from[j], upto[j])
          BY <1>3
        <5> QED
          BY <1>2, <5>1 DEF IsGap
      <4>2. CASE j = L
        BY <1>2, <1>4, <1>5, <4>1, <4>2
      <4>3. CASE j # L
        BY <1>2, <1>5, <4>1, <4>3
      <4> QED
        BY <4>2, <4>3
    <3> QED
      BY <3>1, <3>2
  <2> QED
    BY <1>5, <2>1, <2>2 DEF Pieces, L
<1>7. Complete(before, since, until, text, c, n)
  <2> SUFFICES ASSUME NEW a \in 0 .. n, NEW b \in 1 .. n + 1,
                      IsGap(text, c, n, a, b), b # a + 1
               PROVE  \E i \in 1 .. L : since[i] = a /\ until[i] = b
    BY DEF Complete, L
  <2>1. IsGap(text, c, n - 1, a, b)
    BY <1>2, GapsWith
  <2>2. a \in 0 .. n - 1 /\ b \in 1 .. (n - 1) + 1
    BY <1>2, <2>1 DEF IsGap
  <2>3. PICK i \in 1 .. L : from[i] = a /\ upto[i] = b
    BY <1>1, <2>1, <2>2 DEF Complete, L
  <2>4. i # L
    BY <1>2, <1>3, <1>4, <2>3
  <2> QED
    BY <1>5, <2>3, <2>4
<1> QED
  BY <1>2, <1>6, <1>7 DEF SplitInv

(* Any other separator begins the next token.                              *)
LEMMA SplitSeparator ==
  ASSUME NEW C, NEW text \in Seq(C), NEW c, NEW compress, NEW n \in 1 .. Len(text),
         NEW before, SplitInv(before, C, text, c, compress, n - 1),
         text[n] = c, ~ (compress /\ n > 1 /\ text[n - 1] = c)
  PROVE  SplitInv(NextTokens(before, text, c, compress, n), C, text, c, compress, n)
<1> DEFINE L == Len(before)
           new == NextTokens(before, text, c, compress, n)
<1>1. PICK from, upto : /\ Pieces(before, from, upto, text, c, n - 1)
                        /\ Complete(before, from, upto, text, c, n - 1)
                        /\ ~ compress => Apart(before, from, upto, text, c, n - 1)
  BY DEF SplitInv
<1>2. /\ before \in Tokens(C) /\ new \in Tokens(C)
      /\ L \in Nat /\ L >= 1 /\ L \in 1 .. L /\ n \in Nat \ {0} /\ (n - 1) + 1 = n
  BY NextIsTokens DEF SplitInv, Tokens
<1> DEFINE since == [i \in 1 .. L + 1 |-> IF i = L + 1 THEN n ELSE from[i]]
           until == [i \in 1 .. L + 1 |-> IF i = L + 1 THEN n + 1 ELSE upto[i]]
<1>3. /\ Len(new) = L + 1
      /\ new[L + 1] = <<>>
      /\ \A i \in 1 .. L : new[i] = before[i]
  <2>1. before \in Seq(Seq(C)) /\ DOMAIN before = 1 .. L
    BY DEF SplitInv, Tokens
  <2>2. new = Append(before, <<>>)
    BY DEF NextTokens
  <2> HIDE DEF new
  <2> QED
    BY <1>2, <2>1, <2>2
<1> HIDE DEF new, L
<1>4. /\ upto[L] = n
      /\ \A i \in 1 .. L : /\ IsGap(text, c, n - 1, from[i], upto[i])
                           /\ before[i] = SubSeq(text, from[i] + 1, upto[i] - 1)
      /\ \A i, j \in 1 .. L : i < j => upto[i] <= from[j]
  BY <1>1, <1>2 DEF Pieces, L
<1>5. /\ since[L + 1] = n /\ until[L + 1] = n + 1
      /\ \A i \in 1 .. L : since[i] = from[i] /\ until[i] = upto[i]
      /\ 1 .. L + 1 = 1 .. L \cup {L + 1} /\ \A i \in 1 .. L : i # L + 1
  BY <1>2
<1> HIDE DEF since, until
<1>6. Pieces(new, since, until, text, c, n)
  <2>1. ASSUME NEW i \in 1 .. L + 1
        PROVE  /\ IsGap(text, c, n, since[i], until[i])
               /\ new[i] = SubSeq(text, since[i] + 1, until[i] - 1)
    <3>1. CASE i = L + 1
      <4>1. IsGap(text, c, n, n, n + 1)
        BY <1>2, GapsWith
      <4>2. since[i] + 1 = n + 1 /\ until[i] - 1 = n
        BY <1>2, <1>5, <3>1
      <4>3. SubSeq(text, n + 1, n) = <<>>
        BY <1>2, SubSeqEmpty
      <4> QED
        BY <1>3, <1>5, <3>1, <4>1, <4>2, <4>3
    <3>2. CASE i \in 1 .. L
      <4>1. IsGap(text, c, n, from[i], upto[i])
        BY <1>2, <1>4, <3>2, GapsWith
      <4> QED
        BY <1>3, <1>4, <1>5, <3>2, <4>1
    <3> QED
      BY <1>5, <3>1, <3>2
  <2>2. ASSUME NEW i \in 1 .. L + 1, NEW j \in 1 .. L + 1, i < j PROVE until[i] <= since[j]
    <3>1. i \in 1 .. L /\ until[i] = upto[i]
      BY <1>2, <1>5, <2>2
    <3>2. CASE j = L + 1
      <4>1. IsGap(text, c, n - 1, from[i], upto[i])
        BY <1>4, <3>1
      <4>2. upto[i] <= n
        BY <1>2, <4>1 DEF IsGap
      <4> QED
        BY <1>5, <3>1, <3>2, <4>2
    <3>3. CASE j \in 1 .. L
      BY <1>4, <1>5, <2>2, <3>1, <3>3
    <3> QED
      BY <1>5, <3>2, <3>3
  <2> QED
    BY <1>3, <1>5, <2>1, <2>2 DEF Pieces
<1>7. Complete(new, since, until, text, c, n)
  <2> SUFFICES ASSUME NEW a \in 0 .. n, NEW b \in 1 .. n + 1,
                      IsGap(text, c, n, a, b), b # a + 1
               PROVE  \E i \in 1 .. L + 1 : since[i] = a /\ until[i] = b
    BY <1>3 DEF Complete
  <2>1. IsGap(text, c, n - 1, a, b)
    BY <1>2, GapsWith
  <2>2. a \in 0 .. n - 1 /\ b \in 1 .. (n - 1) + 1
    BY <1>2, <2>1 DEF IsGap
  <2>3. PICK i \in 1 .. L : from[i] = a /\ upto[i] = b
    BY <1>1, <2>1, <2>2 DEF Complete, L
  <2> QED
    BY <1>5, <2>3
<1>8. ASSUME ~ compress PROVE Apart(new, since, until, text, c, n)
  <2> SUFFICES ASSUME NEW q \in 1 .. n, text[q] = c
               PROVE  \E i \in 1 .. L : until[i] = q /\ since[i + 1] = q
    <3>1. Len(new) - 1 = L
      BY <1>2, <1>3
    <3> QED
      BY <3>1 DEF Apart
  <2>1. CASE q = n
    BY <1>2, <1>4, <1>5, <2>1
  <2>2. CASE q # n
    <3>1. q \in 1 .. n - 1
      BY <1>2, <2>2
    <3>2. PICK i \in 1 .. L - 1 : upto[i] = q /\ from[i + 1] = q
      BY <1>1, <1>8, <3>1 DEF Apart, L
    <3>3. i \in 1 .. L /\ i + 1 \in 1 .. L
      BY <1>2
    <3> QED
      BY <1>5, <3>2, <3>3
  <2> QED
    BY <2>1, <2>2
<1> QED
  BY <1>2, <1>6, <1>7, <1>8 DEF SplitInv, new

(* And the loop.                                                           *)
SplitLoop(tokens, text, c, compress) ==
  tokens = [n \in 0 .. Len(text) |->
              IF n = 0 THEN << <<>> >>
              ELSE LET before == tokens[n - 1]
                   IN  IF text[n] # c
                       THEN [before EXCEPT ![Len(before)] = Append(@, text[n])]
                       ELSE IF compress /\ n > 1 /\ text[n - 1] = c THEN before
                       ELSE Append(before, <<>>)]

(* Split is the last value of its loop.                                    *)
LEMMA SplitLoopExists ==
  ASSUME NEW C, NEW text \in Seq(C), NEW c, NEW compress
  PROVE  \E tokens : /\ SplitLoop(tokens, text, c, compress)
                     /\ Split(text, c, compress) = tokens[Len(text)]
<1> DEFINE N == Len(text)
           Acc == Tokens(C)
           step == [n \in 1 .. N |-> [a \in Acc |-> NextTokens(a, text, c, compress, n)]]
<1>1. N \in Nat /\ << <<>> >> \in Acc
  BY DEF Tokens
<1>2. step \in [1 .. N -> [Acc -> Acc]]
  <2> HIDE DEF Acc
  <2>1. \A n \in 1 .. N, a \in Acc : NextTokens(a, text, c, compress, n) \in Acc
    BY NextIsTokens DEF Acc
  <2> QED
    BY <2>1
<1>3. PICK f : IsLoop(f, N, Acc, << <<>> >>, step)
  <2> HIDE DEF step, Acc, N
  <2> QED
    BY <1>1, <1>2, LoopExists
<1>4. \A n \in 1 .. N : f[n] = NextTokens(f[n - 1], text, c, compress, n)
  <2> SUFFICES ASSUME NEW n \in 1 .. N
               PROVE  f[n] = NextTokens(f[n - 1], text, c, compress, n)
    OBVIOUS
  <2>1. f[n - 1] \in Acc /\ f[n] = step[n][f[n - 1]]
    <3> HIDE DEF Acc, step, N
    <3> QED
      BY <1>1, <1>3 DEF IsLoop
  <2> HIDE DEF Acc
  <2> QED
    BY <2>1
<1>5. SplitLoop(f, text, c, compress)
  <2>1. \A n \in 0 .. N : f[n] = IF n = 0 THEN << <<>> >>
                                ELSE NextTokens(f[n - 1], text, c, compress, n)
    BY <1>1, <1>3, <1>4 DEF IsLoop
  <2>2. f = [n \in 0 .. N |-> f[n]]
    BY <1>3 DEF IsLoop
  <2> QED
    BY <2>1, <2>2 DEF SplitLoop, NextTokens
<1>6. Split(text, c, compress) = (CHOOSE tokens : SplitLoop(tokens, text, c, compress))[N]
  BY DEF Split, SplitLoop
<1> QED
  BY <1>5, <1>6

(* Whatever the text, the tokens are the pieces between its separators, in *)
(* their order: all, or all but empty ones if those side by side are       *)
(* compressed (content_traits.h:86, :91).                                  *)
LEMMA SplitSplits ==
  ASSUME NEW C, NEW text \in Seq(C), NEW c, NEW compress
  PROVE  SplitInv(Split(text, c, compress), C, text, c, compress, Len(text))
<1> DEFINE N == Len(text)
<1>1. N \in Nat
  OBVIOUS
<1>2. PICK tokens : /\ SplitLoop(tokens, text, c, compress)
                    /\ Split(text, c, compress) = tokens[N]
  BY SplitLoopExists
<1> DEFINE P(n) == SplitInv(tokens[n], C, text, c, compress, n)
           S == {n \in 0 .. N : P(n)}
<1>3. tokens[0] = << <<>> >>
  BY <1>1, <1>2 DEF SplitLoop
<1>4. ASSUME NEW n \in 1 .. N PROVE tokens[n] = NextTokens(tokens[n - 1], text, c, compress, n)
  <2>1. tokens = [m \in 0 .. N |-> IF m = 0 THEN << <<>> >>
                                   ELSE NextTokens(tokens[m - 1], text, c, compress, m)]
    BY <1>2 DEF SplitLoop, NextTokens
  <2>2. n \in 0 .. N /\ n # 0
    BY <1>1
  <2> HIDE DEF N
  <2> QED
    BY <2>1, <2>2
<1>5. P(0)
  BY <1>3, SplitFirst
<1>6. ASSUME NEW n \in 1 .. N, P(n - 1) PROVE P(n)
  <2>1. CASE text[n] # c
    BY <1>4, <1>6, <2>1, SplitCharacter
  <2>2. CASE text[n] = c /\ compress /\ n > 1 /\ text[n - 1] = c
    BY <1>4, <1>6, <2>2, SplitCompressed
  <2>3. CASE text[n] = c /\ ~ (compress /\ n > 1 /\ text[n - 1] = c)
    BY <1>4, <1>6, <2>3, SplitSeparator
  <2> QED
    BY <2>1, <2>2, <2>3
<1>7. Inductive(S, N)
  <2> HIDE DEF P
  <2> QED
    BY <1>1, <1>5, <1>6 DEF Inductive
<1>8. P(N)
  <2> HIDE DEF S
  <2>1. N \in S
    BY <1>1, <1>7, UpTo
  <2> QED
    BY <2>1 DEF S
<1> QED
  BY <1>2, <1>8

-----------------------------------------------------------------------------
(* A text without a separator.                                             *)
Without(s, c) == \A i \in 1 .. Len(s) : s[i] # c

(* Two texts with a character between them.                                *)
LEMMA Joined ==
  ASSUME NEW C, NEW c \in C, NEW k \in Seq(C), NEW v \in Seq(C)
  PROVE  /\ k \o <<c>> \o v \in Seq(C)
         /\ Len(k \o <<c>> \o v) = Len(k) + 1 + Len(v)
         /\ \A i \in 1 .. Len(k) : (k \o <<c>> \o v)[i] = k[i]
         /\ (k \o <<c>> \o v)[Len(k) + 1] = c
         /\ \A i \in 1 .. Len(v) : (k \o <<c>> \o v)[Len(k) + 1 + i] = v[i]
<1> DEFINE s == k \o <<c>>
<1>1. Len(k) \in Nat /\ Len(v) \in Nat /\ <<c>> \in Seq(C) /\ Len(<<c>>) = 1 /\ <<c>>[1] = c
  OBVIOUS
<1>2. /\ s \in Seq(C) /\ Len(s) = Len(k) + 1
      /\ \A i \in 1 .. Len(k) + 1 : s[i] = IF i <= Len(k) THEN k[i] ELSE <<c>>[i - Len(k)]
  BY <1>1, ConcatProperties
<1>3. /\ \A i \in 1 .. Len(k) : s[i] = k[i]
      /\ s[Len(k) + 1] = c
  <2>1. /\ \A i \in 1 .. Len(k) : i \in 1 .. Len(k) + 1 /\ i <= Len(k)
        /\ Len(k) + 1 \in 1 .. Len(k) + 1 /\ ~ (Len(k) + 1 <= Len(k)) /\ Len(k) + 1 - Len(k) = 1
    BY <1>1
  <2> QED
    BY <1>1, <1>2, <2>1
<1> HIDE DEF s
<1>4. /\ s \o v \in Seq(C) /\ Len(s \o v) = Len(s) + Len(v)
      /\ \A i \in 1 .. Len(s) + Len(v) : (s \o v)[i] = IF i <= Len(s) THEN s[i] ELSE v[i - Len(s)]
  <2>1. s \in Seq(C)
    BY <1>2
  <2> QED
    BY <2>1, ConcatProperties
<1>5. \A i \in 1 .. Len(k) + 1 : (s \o v)[i] = s[i]
  <2>1. \A i \in 1 .. Len(k) + 1 : i \in 1 .. Len(s) + Len(v) /\ i <= Len(s)
    BY <1>1, <1>2
  <2> QED
    BY <1>4, <2>1
<1>6. \A i \in 1 .. Len(v) : (s \o v)[Len(k) + 1 + i] = v[i]
  <2> SUFFICES ASSUME NEW i \in 1 .. Len(v) PROVE (s \o v)[Len(k) + 1 + i] = v[i]
    OBVIOUS
  <2> DEFINE j == Len(k) + 1 + i
  <2>1. j \in 1 .. Len(s) + Len(v) /\ ~ (j <= Len(s)) /\ j - Len(s) = i
    BY <1>1, <1>2
  <2> QED
    BY <1>4, <2>1
<1>7. Len(s \o v) = Len(k) + 1 + Len(v)
  BY <1>2, <1>4
<1>8. \A i \in 1 .. Len(k) : (s \o v)[i] = k[i]
  <2>1. \A i \in 1 .. Len(k) : i \in 1 .. Len(k) + 1
    BY <1>1
  <2> QED
    BY <1>3, <1>5, <2>1
<1>9. (s \o v)[Len(k) + 1] = c
  <2>1. Len(k) + 1 \in 1 .. Len(k) + 1
    BY <1>1
  <2> QED
    BY <1>3, <1>5, <2>1
<1> QED
  BY <1>4, <1>6, <1>7, <1>8, <1>9 DEF s

(* A text falls into what is before a character of it and what is behind.  *)
LEMMA JoinedAt ==
  ASSUME NEW C, NEW c \in C, NEW text \in Seq(C), NEW q \in 1 .. Len(text), text[q] = c
  PROVE  text = SubSeq(text, 1, q - 1) \o <<c>> \o SubSeq(text, q + 1, Len(text))
<1> DEFINE k == SubSeq(text, 0 + 1, q - 1)
           v == SubSeq(text, q + 1, Len(text))
<1>1. Len(text) \in Nat /\ q - 1 \in 0 .. Len(text) /\ 0 \in 0 .. Len(text) /\ q \in 0 .. Len(text)
  OBVIOUS
<1>2. /\ k \in Seq(C) /\ Len(k) = q - 1 /\ \A i \in 1 .. q - 1 : k[i] = text[i]
  <2>1. /\ k \in Seq(C) /\ Len(k) = (q - 1) - 0 /\ \A i \in 1 .. (q - 1) - 0 : k[i] = text[0 + i]
    BY <1>1, Piece
  <2> HIDE DEF k
  <2> QED
    BY <1>1, <2>1
<1>3. /\ v \in Seq(C) /\ Len(v) = Len(text) - q /\ \A i \in 1 .. Len(text) - q : v[i] = text[q + i]
  BY <1>1, Piece
<1> HIDE DEF k, v
<1> DEFINE s == k \o <<c>> \o v
<1>4. /\ s \in Seq(C) /\ Len(s) = Len(k) + 1 + Len(v)
      /\ \A i \in 1 .. Len(k) : s[i] = k[i]
      /\ s[Len(k) + 1] = c
      /\ \A i \in 1 .. Len(v) : s[Len(k) + 1 + i] = v[i]
  <2>1. k \in Seq(C) /\ v \in Seq(C)
    BY <1>2, <1>3
  <2> QED
    BY <2>1, Joined
<1> HIDE DEF s
<1>5. ASSUME NEW i \in 1 .. Len(text) PROVE s[i] = text[i]
  <2>1. CASE i < q
    <3>1. i \in 1 .. q - 1
      BY <1>1, <2>1
    <3> QED
      BY <1>2, <1>4, <3>1
  <2>2. CASE i = q
    <3>1. Len(k) + 1 = q
      BY <1>1, <1>2
    <3> QED
      BY <1>4, <2>2, <3>1
  <2>3. CASE i > q
    <3> DEFINE j == i - q
    <3>1. j \in 1 .. Len(text) - q /\ Len(k) + 1 + j = i /\ q + j = i
      BY <1>1, <1>2, <2>3
    <3> HIDE DEF j
    <3> QED
      BY <1>3, <1>4, <3>1
  <2> QED
    BY <1>1, <2>1, <2>2, <2>3
<1>6. Len(s) = Len(text)
  BY <1>1, <1>2, <1>3, <1>4
<1>7. s = text
  BY <1>4, <1>5, <1>6, SeqEqual
<1>8. 0 + 1 = 1
  OBVIOUS
<1> QED
  BY <1>7, <1>8 DEF s, k, v

(* What was joined comes apart into its halves.                            *)
LEMMA JoinedHalves ==
  ASSUME NEW C, NEW c \in C, NEW k \in Seq(C), NEW v \in Seq(C), NEW text, text = k \o <<c>> \o v
  PROVE  /\ k = SubSeq(text, 1, Len(k))
         /\ v = SubSeq(text, Len(k) + 2, Len(text))
<1>1. /\ text \in Seq(C) /\ Len(text) = Len(k) + 1 + Len(v)
      /\ \A i \in 1 .. Len(k) : text[i] = k[i]
      /\ \A i \in 1 .. Len(v) : text[Len(k) + 1 + i] = v[i]
      /\ Len(k) \in Nat /\ Len(v) \in Nat
  BY Joined
<1>2. k = SubSeq(text, 0 + 1, Len(k))
  <2>1. /\ 0 \in 0 .. Len(text) /\ Len(k) \in 0 .. Len(text) /\ Len(k) = Len(k) - 0
        /\ \A i \in 1 .. Len(k) - 0 : k[i] = text[0 + i]
    BY <1>1
  <2> QED
    BY <1>1, <2>1, PieceIs
<1>3. v = SubSeq(text, (Len(k) + 1) + 1, Len(text))
  <2> DEFINE a == Len(k) + 1
  <2>1. /\ a \in 0 .. Len(text) /\ Len(text) \in a .. Len(text) /\ Len(v) = Len(text) - a
    BY <1>1
  <2>2. \A i \in 1 .. Len(text) - a : v[i] = text[a + i]
    BY <1>1, <2>1
  <2> HIDE DEF a
  <2>3. v = SubSeq(text, a + 1, Len(text))
    BY <1>1, <2>1, <2>2, PieceIs
  <2> QED
    BY <2>3 DEF a
<1>4. 0 + 1 = 1 /\ (Len(k) + 1) + 1 = Len(k) + 2
  BY <1>1
<1> QED
  BY <1>2, <1>3, <1>4

(* A text has a separator at q and nowhere else.                           *)
OnlyAt(text, c, q) == q \in 1 .. Len(text) /\ \A i \in 1 .. Len(text) : text[i] = c <=> i = q

(* Texts without a separator, joined by it, have it just once.             *)
LEMMA JoinedOnlyAt ==
  ASSUME NEW C, NEW c \in C, NEW k \in Seq(C), NEW v \in Seq(C), NEW text, text = k \o <<c>> \o v,
         Without(k, c), Without(v, c)
  PROVE  OnlyAt(text, c, Len(k) + 1)
<1>1. /\ text \in Seq(C) /\ Len(text) = Len(k) + 1 + Len(v)
      /\ \A i \in 1 .. Len(k) : text[i] = k[i]
      /\ text[Len(k) + 1] = c
      /\ \A i \in 1 .. Len(v) : text[Len(k) + 1 + i] = v[i]
      /\ Len(k) \in Nat /\ Len(v) \in Nat
  BY Joined
<1>2. ASSUME NEW i \in 1 .. Len(text), i # Len(k) + 1 PROVE text[i] # c
  <2>1. CASE i <= Len(k)
    <3>1. i \in 1 .. Len(k)
      BY <1>1, <2>1
    <3> QED
      BY <1>1, <3>1 DEF Without
  <2>2. CASE ~ (i <= Len(k))
    <3> DEFINE j == i - (Len(k) + 1)
    <3>1. j \in 1 .. Len(v) /\ Len(k) + 1 + j = i
      BY <1>1, <1>2, <2>2
    <3> HIDE DEF j
    <3> QED
      BY <1>1, <3>1 DEF Without
  <2> QED
    BY <2>1, <2>2
<1>3. Len(k) + 1 \in 1 .. Len(text)
  BY <1>1
<1> QED
  BY <1>1, <1>2, <1>3 DEF OnlyAt

(* A pair is split in two just when it has one separator, and is left      *)
(* whole just when it has none.                                            *)
PairParts(kv, C, pair, c) ==
  /\ kv \in Tokens(C)
  /\ Len(kv) = 1 <=> Without(pair, c)
  /\ Len(kv) = 1 => kv[1] = pair
  /\ Len(kv) = 2 <=> \E q \in 1 .. Len(pair) : OnlyAt(pair, c, q)
  /\ \A q \in 1 .. Len(pair) :
       Len(kv) = 2 /\ OnlyAt(pair, c, q)
         => kv[1] = SubSeq(pair, 1, q - 1) /\ kv[2] = SubSeq(pair, q + 1, Len(pair))

(* Whatever the pair, this is how it is split (content_traits.h:95).       *)
LEMMA PairSplits ==
  ASSUME NEW C, NEW pair \in Seq(C), NEW c
  PROVE  PairParts(Split(pair, c, FALSE), C, pair, c)
<1> DEFINE kv == Split(pair, c, FALSE)
           N == Len(pair)
           M == Len(kv)
<1>1. SplitInv(kv, C, pair, c, FALSE, N) /\ N \in Nat
  <2>1. \A b : SplitInv(Split(pair, c, b), C, pair, c, b, N)
    BY SplitSplits
  <2>2. N \in Nat
    OBVIOUS
  <2> HIDE DEF N
  <2> QED
    BY <2>1, <2>2
<1> HIDE DEF kv
<1>2. kv \in Tokens(C) /\ M \in Nat /\ M >= 1 /\ 1 \in 1 .. M /\ M \in 1 .. M
  BY <1>1 DEF SplitInv, Tokens
<1>3. PICK from, upto : Pieces(kv, from, upto, pair, c, N) /\ Apart(kv, from, upto, pair, c, N)
  BY <1>1 DEF SplitInv
<1>4. /\ upto[M] = N + 1
      /\ \A i \in 1 .. M : /\ IsGap(pair, c, N, from[i], upto[i])
                           /\ kv[i] = SubSeq(pair, from[i] + 1, upto[i] - 1)
      /\ \A i, j \in 1 .. M : i < j => upto[i] <= from[j]
  BY <1>3 DEF Pieces
<1>5. \A q \in 1 .. N : pair[q] = c => \E i \in 1 .. M - 1 : upto[i] = q /\ from[i + 1] = q
  BY <1>3 DEF Apart
<1> HIDE DEF N, M
<1>6. ASSUME NEW i \in 1 .. M
      PROVE  /\ from[i] \in 0 .. N /\ upto[i] \in from[i] + 1 .. N + 1
             /\ from[i] = 0 \/ pair[from[i]] = c
             /\ upto[i] = N + 1 \/ pair[upto[i]] = c
  BY <1>1, <1>4 DEF IsGap
<1>7. ASSUME NEW i \in 1 .. M, i > 1 PROVE from[i] \in 1 .. N /\ pair[from[i]] = c
  <2>1. upto[1] <= from[i] /\ upto[1] \in 1 .. N + 1
    BY <1>2, <1>4, <1>6, <1>7
  <2> QED
    BY <1>1, <1>6, <2>1
<1>8. M = 1 <=> Without(pair, c)
  <2>1. ASSUME M = 1 PROVE Without(pair, c)
    BY <1>5, <2>1 DEF Without, N
  <2>2. ASSUME Without(pair, c) PROVE M = 1
    <3> SUFFICES ASSUME M > 1 PROVE FALSE
      BY <1>2
    <3> QED
      BY <1>2, <1>7, <2>2 DEF Without, N
  <2> QED
    BY <2>1, <2>2
<1>9. ASSUME M = 1 PROVE kv[1] = pair
  <2>1. Without(pair, c)
    BY <1>8, <1>9
  <2>2. from[1] = 0 /\ upto[1] = N + 1
    BY <1>1, <1>2, <1>4, <1>6, <1>9, <2>1 DEF Without, N
  <2>3. kv[1] = SubSeq(pair, 1, N)
    <3>1. kv[1] = SubSeq(pair, from[1] + 1, upto[1] - 1)
      BY <1>2, <1>4
    <3>2. from[1] + 1 = 1 /\ upto[1] - 1 = N
      BY <1>1, <2>2
    <3> QED
      BY <3>1, <3>2
  <2> QED
    BY <2>3, SubSeqFull DEF N
<1>10. ASSUME M = 2
       PROVE  \E q \in 1 .. N : /\ OnlyAt(pair, c, q)
                                /\ kv[1] = SubSeq(pair, 1, q - 1) /\ kv[2] = SubSeq(pair, q + 1, N)
  <2> DEFINE q == from[2]
  <2>1. 2 \in 1 .. M /\ 1 .. M - 1 = {1} /\ 1 + 1 = 2
    BY <1>10
  <2>2. q \in 1 .. N /\ pair[q] = c
    BY <1>7, <2>1
  <2>3. upto[1] = q /\ \A i \in 1 .. N : pair[i] = c => i = q
    BY <1>5, <2>1, <2>2
  <2>4. OnlyAt(pair, c, q)
    BY <2>2, <2>3 DEF OnlyAt, N
  <2>5. from[1] = 0
    <3>1. from[1] \in 0 .. N /\ from[1] < q /\ (from[1] = 0 \/ pair[from[1]] = c)
      BY <1>1, <1>2, <1>6, <2>2, <2>3
    <3> QED
      BY <1>1, <2>2, <2>3, <3>1
  <2>6. upto[2] = N + 1
    BY <1>4, <1>10
  <2>7. kv[1] = SubSeq(pair, 1, q - 1)
    <3>1. kv[1] = SubSeq(pair, from[1] + 1, upto[1] - 1)
      BY <1>2, <1>4
    <3>2. from[1] + 1 = 1
      BY <2>5
    <3> QED
      BY <2>3, <3>1, <3>2
  <2>8. kv[2] = SubSeq(pair, q + 1, N)
    <3>1. kv[2] = SubSeq(pair, from[2] + 1, upto[2] - 1)
      BY <1>4, <2>1
    <3>2. upto[2] - 1 = N
      BY <1>1, <2>6
    <3> QED
      BY <3>1, <3>2
  <2> QED
    BY <2>2, <2>4, <2>7, <2>8
<1>11. ASSUME NEW q \in 1 .. N, OnlyAt(pair, c, q) PROVE M = 2
  <2>1. \A i \in 1 .. N : pair[i] = c <=> i = q
    BY <1>11 DEF OnlyAt, N
  <2>2. M # 1
    BY <1>8, <2>1 DEF Without, N
  <2>3. ASSUME M > 2 PROVE FALSE
    <3>1. 2 \in 1 .. M /\ 3 \in 1 .. M
      BY <1>2, <2>3
    <3>2. from[2] = q /\ from[3] = q
      BY <1>7, <2>1, <3>1
    <3>3. upto[2] <= from[3] /\ from[2] < upto[2] /\ upto[2] \in Nat
      BY <1>1, <1>4, <1>6, <3>1
    <3> QED
      BY <1>1, <3>2, <3>3
  <2> QED
    BY <1>2, <2>2, <2>3
<1>12. ASSUME NEW q \in 1 .. N, M = 2, OnlyAt(pair, c, q)
       PROVE  kv[1] = SubSeq(pair, 1, q - 1) /\ kv[2] = SubSeq(pair, q + 1, N)
  <2>1. PICK p \in 1 .. N : /\ OnlyAt(pair, c, p)
                            /\ kv[1] = SubSeq(pair, 1, p - 1) /\ kv[2] = SubSeq(pair, p + 1, N)
    BY <1>10, <1>12
  <2>2. p = q
    BY <1>12, <2>1 DEF OnlyAt
  <2> QED
    BY <2>1, <2>2
<1>13. M = 2 <=> \E q \in 1 .. N : OnlyAt(pair, c, q)
  BY <1>10, <1>11
<1> QED
  BY <1>2, <1>8, <1>9, <1>12, <1>13 DEF PairParts, kv, N, M

(* How a pair writes a field.                                              *)
Writes(pair, k, v) == pair = k \o <<"=">> \o v \/ (v = <<>> /\ k # <<>> /\ pair = k)

(* A pair gives a field, of name and value without separator, just when it *)
(* writes it (content_traits.h:91-103).                                    *)
LEMMA FieldsOfPair ==
  ASSUME NEW C, "=" \in C, NEW pair \in Seq(C),
         NEW k \in Seq(C), NEW v \in Seq(C), Without(k, "="), Without(v, "=")
  PROVE  <<k, v>> \in FieldsOf(pair) <=> Writes(pair, k, v)
<1> DEFINE kv == Split(pair, "=", FALSE)
<1>1. /\ kv \in Tokens(C)
      /\ Len(kv) = 1 <=> Without(pair, "=")
      /\ Len(kv) = 1 => kv[1] = pair
      /\ Len(kv) = 2 <=> \E q \in 1 .. Len(pair) : OnlyAt(pair, "=", q)
      /\ \A q \in 1 .. Len(pair) :
           Len(kv) = 2 /\ OnlyAt(pair, "=", q)
             => kv[1] = SubSeq(pair, 1, q - 1) /\ kv[2] = SubSeq(pair, q + 1, Len(pair))
  <2>1. PairParts(kv, C, pair, "=")
    BY PairSplits
  <2> HIDE DEF kv
  <2> QED
    BY <2>1 DEF PairParts
<1>2. FieldsOf(pair) = CASE Len(kv) = 2 -> {kv}
                         [] Len(kv) = 1 /\ kv[1] # <<>> -> {<<kv[1], <<>> >>}
                         [] OTHER -> {}
  BY DEF FieldsOf
<1> HIDE DEF kv
<1>3. kv \in Seq(Seq(C)) /\ Len(kv) \in Nat
  BY <1>1 DEF Tokens
<1>4. ASSUME pair = k \o <<"=">> \o v PROVE <<k, v>> \in FieldsOf(pair)
  <2> DEFINE q == Len(k) + 1
  <2>1. OnlyAt(pair, "=", q)
    BY <1>4, JoinedOnlyAt
  <2>2. k = SubSeq(pair, 1, Len(k)) /\ v = SubSeq(pair, Len(k) + 2, Len(pair))
    BY <1>4, JoinedHalves
  <2>3. q - 1 = Len(k) /\ q + 1 = Len(k) + 2
    OBVIOUS
  <2>4. q \in 1 .. Len(pair)
    BY <2>1 DEF OnlyAt
  <2> HIDE DEF q
  <2>5. Len(kv) = 2 /\ kv[1] = k /\ kv[2] = v
    BY <1>1, <2>1, <2>2, <2>3, <2>4
  <2>6. kv = <<k, v>>
    BY <1>3, <2>5
  <2> QED
    BY <1>2, <2>5, <2>6
<1>5. ASSUME v = <<>>, k # <<>>, pair = k PROVE <<k, v>> \in FieldsOf(pair)
  <2>1. Len(kv) = 1 /\ kv[1] = k
    BY <1>1, <1>5
  <2> QED
    BY <1>2, <1>5, <2>1
<1>6. ASSUME <<k, v>> \in FieldsOf(pair)
      PROVE  pair = k \o <<"=">> \o v \/ (v = <<>> /\ k # <<>> /\ pair = k)
  <2>1. CASE Len(kv) = 2
    <3>1. kv = <<k, v>>
      BY <1>2, <1>6, <2>1
    <3>2. kv[1] = k /\ kv[2] = v
      BY <3>1
    <3>3. PICK q \in 1 .. Len(pair) : OnlyAt(pair, "=", q)
      BY <1>1, <2>1
    <3>4. k = SubSeq(pair, 1, q - 1) /\ v = SubSeq(pair, q + 1, Len(pair))
      BY <1>1, <2>1, <3>2, <3>3
    <3>5. pair[q] = "="
      BY <3>3 DEF OnlyAt
    <3>6. pair = SubSeq(pair, 1, q - 1) \o <<"=">> \o SubSeq(pair, q + 1, Len(pair))
      BY <3>3, <3>5, JoinedAt
    <3> QED
      BY <3>4, <3>6
  <2>2. CASE Len(kv) = 1 /\ kv[1] # <<>>
    <3>1. <<k, v>> = <<kv[1], <<>> >>
      BY <1>2, <1>6, <2>2
    <3>2. k = kv[1] /\ v = <<>>
      BY <3>1
    <3> QED
      BY <1>1, <2>2, <3>2
  <2>3. CASE Len(kv) # 2 /\ ~ (Len(kv) = 1 /\ kv[1] # <<>>)
    BY <1>2, <1>6, <2>3
  <2> QED
    BY <2>1, <2>2, <2>3
<1> QED
  BY <1>4, <1>5, <1>6 DEF Writes

(* A name and a value are the beginning and the end of a pair.             *)
PartsOf(pair, k, v) ==
  \E a \in 0 .. Len(pair), b \in 0 .. Len(pair) :
    /\ k = SubSeq(pair, 1, a) /\ \A i \in 1 .. a : pair[i] # "="
    /\ v = SubSeq(pair, b + 1, Len(pair)) /\ \A i \in b + 1 .. Len(pair) : pair[i] # "="

(* A field's name is the beginning of its pair, and its value the end, and *)
(* no separator is in either.                                              *)
LEMMA FieldsAreParts ==
  ASSUME NEW C, NEW pair \in Seq(C), NEW field \in FieldsOf(pair)
  PROVE  \E k, v \in Seq(C) : field = <<k, v>> /\ PartsOf(pair, k, v)
<1> DEFINE kv == Split(pair, "=", FALSE)
           N == Len(pair)
<1>1. /\ kv \in Tokens(C)
      /\ Len(kv) = 1 <=> Without(pair, "=")
      /\ Len(kv) = 1 => kv[1] = pair
      /\ Len(kv) = 2 <=> \E q \in 1 .. Len(pair) : OnlyAt(pair, "=", q)
      /\ \A q \in 1 .. Len(pair) :
           Len(kv) = 2 /\ OnlyAt(pair, "=", q)
             => kv[1] = SubSeq(pair, 1, q - 1) /\ kv[2] = SubSeq(pair, q + 1, Len(pair))
  <2>1. PairParts(kv, C, pair, "=")
    BY PairSplits
  <2> HIDE DEF kv
  <2> QED
    BY <2>1 DEF PairParts
<1>2. field \in CASE Len(kv) = 2 -> {kv}
                  [] Len(kv) = 1 /\ kv[1] # <<>> -> {<<kv[1], <<>> >>}
                  [] OTHER -> {}
  BY DEF FieldsOf
<1> HIDE DEF kv
<1>3. kv \in Seq(Seq(C)) /\ Len(kv) \in Nat /\ N \in Nat
  BY <1>1 DEF Tokens
<1>4. CASE Len(kv) = 2
  <2>1. kv = <<kv[1], kv[2]>> /\ kv[1] \in Seq(C) /\ kv[2] \in Seq(C)
    <3>1. 1 \in 1 .. Len(kv) /\ 2 \in 1 .. Len(kv)
      BY <1>4
    <3>2. kv[1] \in Seq(C) /\ kv[2] \in Seq(C)
      BY <1>3, <3>1
    <3> DEFINE k == kv[1]
               v == kv[2]
    <3>3. k \in Seq(C) /\ v \in Seq(C)
      BY <3>2
    <3> HIDE DEF k, v
    <3>4. kv = <<k, v>>
      BY <1>3, <1>4, <3>3 DEF k, v
    <3> QED
      BY <3>2, <3>4 DEF k, v
  <2>2. PICK q \in 1 .. N : OnlyAt(pair, "=", q)
    BY <1>1, <1>4
  <2>3. kv[1] = SubSeq(pair, 1, q - 1) /\ kv[2] = SubSeq(pair, q + 1, N)
    BY <1>1, <1>4, <2>2
  <2>4. \A i \in 1 .. N : i # q => pair[i] # "="
    BY <2>2 DEF OnlyAt
  <2>5. q - 1 \in 0 .. N /\ q \in 0 .. N
    BY <1>3
  <2>6. /\ \A i \in 1 .. q - 1 : pair[i] # "="
        /\ \A i \in q + 1 .. N : pair[i] # "="
    BY <1>3, <2>4
  <2>7. PartsOf(pair, kv[1], kv[2])
    BY <2>3, <2>5, <2>6 DEF PartsOf
  <2>8. field = kv
    BY <1>2, <1>4
  <2> QED
    BY <2>1, <2>7, <2>8
<1>5. CASE Len(kv) = 1 /\ kv[1] # <<>>
  <2>1. field = <<pair, <<>> >> /\ <<>> \in Seq(C)
    BY <1>1, <1>2, <1>5
  <2>2. pair = SubSeq(pair, 1, N)
    BY SubSeqFull
  <2>3. <<>> = SubSeq(pair, N + 1, N)
    BY <1>3, SubSeqEmpty
  <2>4. \A i \in 1 .. N : pair[i] # "="
    BY <1>1, <1>5 DEF Without
  <2>5. N \in 0 .. N /\ N + 1 .. N = {}
    BY <1>3
  <2>6. PartsOf(pair, pair, <<>>)
    BY <2>2, <2>3, <2>4, <2>5 DEF PartsOf
  <2> QED
    BY <2>1, <2>6
<1>6. CASE Len(kv) # 2 /\ ~ (Len(kv) = 1 /\ kv[1] # <<>>)
  BY <1>2, <1>6
<1> QED
  BY <1>4, <1>5, <1>6

-----------------------------------------------------------------------------
(* The gaps of the reference definition are those the tokens stand in.     *)
LEMMA GapsAreGaps ==
  ASSUME NEW C, NEW text \in Seq(C)
  PROVE  /\ \A p \in Gaps(text) : p = <<p[1], p[2]>>
         /\ \A a, b : <<a, b>> \in Gaps(text) <=> IsGap(text, "&", Len(text), a, b)
<1> DEFINE N == Len(text)
           B == Bounds(text)
<1>1. N \in Nat /\ DOMAIN text = 1 .. N
  OBVIOUS
<1>2. \A i : i \in B <=> i = 0 \/ i = N + 1 \/ (i \in 1 .. N /\ text[i] = "&")
  BY <1>1 DEF Bounds
<1>3. Gaps(text) = {p \in B \X B : p[1] < p[2] /\ \A n \in B : ~ (p[1] < n /\ n < p[2])}
  BY DEF Gaps
<1> HIDE DEF N, B
<1>4. \A a, b : <<a, b>> \in Gaps(text)
                  <=> a \in B /\ b \in B /\ a < b /\ \A n \in B : ~ (a < n /\ n < b)
  BY <1>3
<1>5. ASSUME NEW a, NEW b
      PROVE  (a \in B /\ b \in B /\ a < b /\ \A n \in B : ~ (a < n /\ n < b))
               <=> IsGap(text, "&", N, a, b)
  <2>1. ASSUME a \in B, b \in B, a < b, \A n \in B : ~ (a < n /\ n < b)
        PROVE  IsGap(text, "&", N, a, b)
    <3>1. a \in 0 .. N /\ b \in a + 1 .. N + 1
      BY <1>1, <1>2, <2>1
    <3>2. (a = 0 \/ text[a] = "&") /\ (b = N + 1 \/ text[b] = "&")
      BY <1>1, <1>2, <2>1, <3>1
    <3>3. ASSUME NEW i \in a + 1 .. b - 1 PROVE text[i] # "&"
      <4>1. i \in 1 .. N /\ a < i /\ i < b
        BY <1>1, <3>1
      <4> QED
        BY <1>2, <2>1, <4>1
    <3> QED
      BY <3>1, <3>2, <3>3 DEF IsGap
  <2>2. ASSUME IsGap(text, "&", N, a, b)
        PROVE  a \in B /\ b \in B /\ a < b /\ \A n \in B : ~ (a < n /\ n < b)
    <3>1. /\ a \in 0 .. N /\ b \in a + 1 .. N + 1
          /\ a = 0 \/ text[a] = "&"
          /\ b = N + 1 \/ text[b] = "&"
          /\ \A i \in a + 1 .. b - 1 : text[i] # "&"
      BY <2>2 DEF IsGap
    <3>2. a \in B /\ b \in B /\ a < b
      BY <1>1, <1>2, <3>1
    <3>3. ASSUME NEW n \in B, a < n, n < b PROVE FALSE
      <4>1. n \in 1 .. N /\ text[n] = "&"
        BY <1>1, <1>2, <3>1, <3>3
      <4>2. n \in a + 1 .. b - 1
        BY <1>1, <3>1, <3>3, <4>1
      <4> QED
        BY <3>1, <4>1, <4>2
    <3> QED
      BY <3>2, <3>3
  <2> QED
    BY <2>1, <2>2
<1>6. \A p \in Gaps(text) : p = <<p[1], p[2]>>
  BY <1>3
<1> QED
  BY <1>4, <1>5, <1>6 DEF N

(* Each pair stands in a gap of its own, and all that are not empty are    *)
(* there.                                                                  *)
Placed(pairs, from, upto, text) ==
  /\ \A i \in 1 .. Len(pairs) :
       /\ <<from[i], upto[i]>> \in Gaps(text)
       /\ from[i] \in 0 .. Len(text) /\ upto[i] \in from[i] + 1 .. Len(text) + 1
       /\ pairs[i] = Between(text, <<from[i], upto[i]>>)
  /\ \A i, j \in 1 .. Len(pairs) : i # j => from[i] # from[j]
  /\ \A p \in Gaps(text) :
       Between(text, p) # <<>> => \E i \in 1 .. Len(pairs) : p = <<from[i], upto[i]>>

(* Each pair that is not empty is split off, once, where it stands.        *)
LEMMA PairsArePlaced ==
  ASSUME NEW C, NEW text \in Seq(C)
  PROVE  LET pairs == Split(text, "&", TRUE)
         IN  /\ pairs \in Seq(Seq(C))
             /\ \E from, upto : Placed(pairs, from, upto, text)
<1> DEFINE pairs == Split(text, "&", TRUE)
           N == Len(text)
           M == Len(pairs)
<1>1. SplitInv(pairs, C, text, "&", TRUE, N) /\ N \in Nat
  <2>1. \A b : SplitInv(Split(text, "&", b), C, text, "&", b, N)
    BY SplitSplits
  <2>2. N \in Nat
    OBVIOUS
  <2> HIDE DEF N
  <2> QED
    BY <2>1, <2>2
<1> HIDE DEF pairs
<1>2. pairs \in Seq(Seq(C)) /\ M \in Nat
  BY <1>1 DEF SplitInv, Tokens
<1>3. PICK from, upto : /\ Pieces(pairs, from, upto, text, "&", N)
                        /\ Complete(pairs, from, upto, text, "&", N)
  BY <1>1 DEF SplitInv
<1>4. /\ \A i \in 1 .. M : /\ IsGap(text, "&", N, from[i], upto[i])
                           /\ pairs[i] = SubSeq(text, from[i] + 1, upto[i] - 1)
      /\ \A i, j \in 1 .. M : i < j => upto[i] <= from[j]
  BY <1>3 DEF Pieces
<1>5. \A p \in Gaps(text) : p = <<p[1], p[2]>> /\ IsGap(text, "&", N, p[1], p[2])
  BY GapsAreGaps
<1>6. \A i \in 1 .. M : <<from[i], upto[i]>> \in Gaps(text)
  BY <1>4, GapsAreGaps
<1> HIDE DEF N, M
<1>7. \A i \in 1 .. M : from[i] \in 0 .. N /\ upto[i] \in from[i] + 1 .. N + 1
  BY <1>4 DEF IsGap
<1>8. \A i \in 1 .. M : pairs[i] = Between(text, <<from[i], upto[i]>>)
  BY <1>4 DEF Between
<1>9. ASSUME NEW i \in 1 .. M, NEW j \in 1 .. M, i # j PROVE from[i] # from[j]
  <2>1. i < j \/ j < i
    BY <1>2, <1>9
  <2> QED
    BY <1>1, <1>4, <1>7, <2>1
<1>10. ASSUME NEW p \in Gaps(text), Between(text, p) # <<>>
       PROVE  \E i \in 1 .. M : p = <<from[i], upto[i]>>
  <2> DEFINE a == p[1]
             b == p[2]
  <2>1. p = <<a, b>> /\ IsGap(text, "&", N, a, b)
    BY <1>5
  <2>2. Between(text, p) = SubSeq(text, a + 1, b - 1)
    BY DEF Between
  <2> HIDE DEF a, b
  <2>3. a \in 0 .. N /\ b \in 1 .. N + 1
    BY <1>1, <2>1 DEF IsGap
  <2>4. b # a + 1
    <3> SUFFICES ASSUME b = a + 1 PROVE FALSE
      OBVIOUS
    <3>1. SubSeq(text, a + 1, b - 1) = <<>>
      BY <1>1, <2>3, SubSeqEmpty
    <3> QED
      BY <1>10, <2>2, <3>1
  <2>5. PICK i \in 1 .. M : from[i] = a /\ upto[i] = b
    BY <1>3, <2>1, <2>3, <2>4 DEF Complete, M
  <2> QED
    BY <2>1, <2>5
<1>11. Placed(pairs, from, upto, text)
  BY <1>6, <1>7, <1>8, <1>9, <1>10 DEF Placed, N, M
<1> QED
  BY <1>2, <1>11 DEF pairs

(* Numbered things that stand one to one for others are as many.           *)
LEMMA SameSize ==
  ASSUME NEW N \in Nat, NEW S \in SUBSET (1 .. N), NEW T, NEW g,
         \A i \in S : g[i] \in T,
         \A i, j \in S : i # j => g[i] # g[j],
         \A t \in T : \E i \in S : t = g[i]
  PROVE  Cardinality(S) = Cardinality(T)
<1> DEFINE f == [i \in S |-> g[i]]
<1>1. f \in [S -> T] /\ (\A a, b \in S : f[a] = f[b] => a = b) /\ \A t \in T : \E i \in S : f[i] = t
  OBVIOUS
<1>2. f \in Bijection(S, T)
  <2> HIDE DEF f
  <2>1. f \in Injection(S, T)
    BY <1>1 DEF Injection, IsInjective
  <2>2. f \in Surjection(S, T)
    BY <1>1 DEF Surjection
  <2> QED
    BY <2>1, <2>2 DEF Bijection
<1>3. ExistsBijection(S, T)
  BY <1>2 DEF ExistsBijection
<1>4. IsFiniteSet(S)
  <2>1. IsFiniteSet(1 .. N)
    <3>1. 1 \in Int /\ N \in Int
      OBVIOUS
    <3> QED
      BY <3>1, FS_Interval
  <2> QED
    BY <2>1, FS_Subset
<1> QED
  BY <1>3, <1>4, FS_Bijection

(* A plain text has neither separator.                                     *)
LEMMA PlainIsWithout ==
  ASSUME NEW C, NEW t \in Seq(C)
  PROVE  Plain(t) <=> Without(t, "=") /\ Without(t, "&")
<1>1. ToSet(t) = {t[i] : i \in 1 .. Len(t)}
  BY DEF ToSet
<1> QED
  BY <1>1 DEF Plain, Without

(* A form has a field as often as its text writes it.                      *)
LEMMA FormCounts ==
  ASSUME NEW C, "=" \in C, NEW text \in Seq(C),
         NEW k \in Seq(C), NEW v \in Seq(C), Plain(k), Plain(v)
  PROVE  Copies(<<k, v>>, DecodeForm(text)) = Cardinality(PairPlaces(text, k, v))
<1> DEFINE pairs == Split(text, "&", TRUE)
           field == <<k, v>>
           I == {i \in 1 .. Len(pairs) : field \in FieldsOf(pairs[i])}
<1>1. pairs \in Seq(Seq(C)) /\ \E from, upto : Placed(pairs, from, upto, text)
  BY PairsArePlaced
<1>2. DecodeForm(text)
        = [f \in UNION {FieldsOf(pairs[i]) : i \in DOMAIN pairs} |->
             Cardinality({i \in DOMAIN pairs : f \in FieldsOf(pairs[i])})]
  BY DEF DecodeForm
<1> HIDE DEF pairs
<1>3. DOMAIN pairs = 1 .. Len(pairs) /\ Len(pairs) \in Nat
  BY <1>1
<1>4. Copies(field, DecodeForm(text)) = Cardinality(I)
  <2> HIDE DEF field
  <2>1. CASE field \in DOMAIN DecodeForm(text)
    BY <1>2, <1>3, <2>1 DEF Copies
  <2>2. CASE field \notin DOMAIN DecodeForm(text)
    <3>1. I = {}
      BY <1>2, <1>3, <2>2
    <3> HIDE DEF I
    <3> QED
      BY <2>2, <3>1, FS_EmptySet DEF Copies
  <2> QED
    BY <2>1, <2>2
<1>5. PICK from, upto : Placed(pairs, from, upto, text)
  BY <1>1
<1>6. Without(k, "=") /\ Without(v, "=")
  BY PlainIsWithout
<1>7. \A i \in 1 .. Len(pairs) :
        field \in FieldsOf(pairs[i]) <=> Writes(pairs[i], k, v)
  <2> SUFFICES ASSUME NEW i \in 1 .. Len(pairs)
               PROVE  <<k, v>> \in FieldsOf(pairs[i]) <=> Writes(pairs[i], k, v)
    OBVIOUS
  <2> DEFINE pair == pairs[i]
  <2>1. pair \in Seq(C)
    BY <1>1
  <2> HIDE DEF pair, field, I
  <2>2. <<k, v>> \in FieldsOf(pair) <=> Writes(pair, k, v)
    BY <1>6, <2>1, FieldsOfPair
  <2> QED
    BY <2>2 DEF pair, field
<1> DEFINE g == [i \in 1 .. Len(pairs) |-> <<from[i], upto[i]>>]
<1>8. \A i \in I : g[i] \in PairPlaces(text, k, v)
  <2> SUFFICES ASSUME NEW i \in I PROVE g[i] \in PairPlaces(text, k, v)
    OBVIOUS
  <2>1. i \in 1 .. Len(pairs) /\ g[i] = <<from[i], upto[i]>>
    OBVIOUS
  <2>2. g[i] \in Gaps(text) /\ pairs[i] = Between(text, g[i])
    BY <1>5, <2>1 DEF Placed
  <2>3. Writes(pairs[i], k, v)
    BY <1>7, <2>1
  <2> HIDE DEF g, I
  <2> QED
    BY <2>2, <2>3 DEF PairPlaces, Writes
<1>9. \A i, j \in I : i # j => g[i] # g[j]
  <2> SUFFICES ASSUME NEW i \in I, NEW j \in I, i # j PROVE g[i] # g[j]
    OBVIOUS
  <2>1. i \in 1 .. Len(pairs) /\ j \in 1 .. Len(pairs)
    OBVIOUS
  <2>2. from[i] # from[j]
    BY <1>5, <2>1 DEF Placed
  <2>3. g[i] = <<from[i], upto[i]>> /\ g[j] = <<from[j], upto[j]>>
    BY <2>1
  <2> HIDE DEF g, I
  <2> QED
    BY <2>2, <2>3
<1>10. \A p \in PairPlaces(text, k, v) : \E i \in I : p = g[i]
  <2> SUFFICES ASSUME NEW p \in PairPlaces(text, k, v) PROVE \E i \in I : p = g[i]
    OBVIOUS
  <2>1. /\ p \in Gaps(text)
        /\ Between(text, p) = k \o <<"=">> \o v \/ (v = <<>> /\ k # <<>> /\ Between(text, p) = k)
    BY DEF PairPlaces
  <2>2. Between(text, p) # <<>>
    <3>1. k \o <<"=">> \o v # <<>>
      <4>1. Len(k \o <<"=">> \o v) = Len(k) + 1 + Len(v) /\ Len(k) \in Nat /\ Len(v) \in Nat
        BY Joined
      <4> QED
        BY <4>1
    <3> QED
      BY <2>1, <3>1
  <2>3. PICK i \in 1 .. Len(pairs) : p = <<from[i], upto[i]>>
    BY <1>5, <2>1, <2>2 DEF Placed
  <2>4. pairs[i] = Between(text, p)
    BY <1>5, <2>3 DEF Placed
  <2>5. field \in FieldsOf(pairs[i])
    <3>1. Writes(pairs[i], k, v)
      BY <2>1, <2>4 DEF Writes
    <3> QED
      BY <1>7, <3>1
  <2>6. i \in I /\ p = g[i]
    BY <2>3, <2>5
  <2> QED
    BY <2>6
<1>11. Cardinality(I) = Cardinality(PairPlaces(text, k, v))
  <2>1. I \in SUBSET (1 .. Len(pairs))
    OBVIOUS
  <2> HIDE DEF I, g
  <2> QED
    BY <1>3, <1>8, <1>9, <1>10, <2>1, SameSize
<1> QED
  BY <1>4, <1>11

(* A piece of a piece is a piece.                                          *)
LEMMA PieceOfPiece ==
  ASSUME NEW C, NEW text \in Seq(C), NEW a \in 0 .. Len(text), NEW b \in a .. Len(text),
         NEW x \in 0 .. b - a, NEW y \in x .. b - a
  PROVE  SubSeq(SubSeq(text, a + 1, b), x + 1, y) = SubSeq(text, a + x + 1, a + y)
<1> DEFINE s == SubSeq(text, a + 1, b)
           t == SubSeq(s, x + 1, y)
<1>1. Len(text) \in Nat
  OBVIOUS
<1>2. s \in Seq(C) /\ Len(s) = b - a /\ \A i \in 1 .. b - a : s[i] = text[a + i]
  BY Piece
<1> HIDE DEF s
<1>3. x \in 0 .. Len(s) /\ y \in x .. Len(s)
  BY <1>1, <1>2
<1>4. t \in Seq(C) /\ Len(t) = y - x /\ \A i \in 1 .. y - x : t[i] = s[x + i]
  BY <1>2, <1>3, Piece
<1> HIDE DEF t
<1> DEFINE c == a + x
           d == a + y
<1>5. c \in 0 .. Len(text) /\ d \in c .. Len(text) /\ Len(t) = d - c
  BY <1>1, <1>4
<1>6. ASSUME NEW i \in 1 .. d - c PROVE t[i] = text[c + i]
  <2>1. i \in 1 .. y - x /\ x + i \in 1 .. b - a /\ a + (x + i) = c + i
    BY <1>1
  <2> QED
    BY <1>2, <1>4, <2>1
<1> HIDE DEF c, d
<1>7. t = SubSeq(text, c + 1, d)
  BY <1>4, <1>5, <1>6, PieceIs
<1> QED
  BY <1>7 DEF t, s, c, d

(* A form has no fields but those with names and values that stand in its  *)
(* text.                                                                   *)
LEMMA FormNames ==
  ASSUME NEW C, NEW text \in Seq(C)
  PROVE  LET names == {t \in Texts(text) : Plain(t)}
         IN  DOMAIN DecodeForm(text) \subseteq names \X names
<1> DEFINE pairs == Split(text, "&", TRUE)
           N == Len(text)
           names == {t \in Texts(text) : Plain(t)}
<1>1. pairs \in Seq(Seq(C)) /\ \E from, upto : Placed(pairs, from, upto, text)
  BY PairsArePlaced
<1>2. DOMAIN DecodeForm(text) = UNION {FieldsOf(pairs[i]) : i \in DOMAIN pairs}
  BY DEF DecodeForm
<1> HIDE DEF pairs
<1> SUFFICES ASSUME NEW field \in DOMAIN DecodeForm(text)
             PROVE  field \in names \X names
  OBVIOUS
<1>3. PICK n \in 1 .. Len(pairs) : field \in FieldsOf(pairs[n])
  BY <1>1, <1>2
<1>4. PICK from, upto : Placed(pairs, from, upto, text)
  BY <1>1
<1> DEFINE pair == pairs[n]
           a == from[n]
           b == upto[n] - 1
<1>5. N \in Nat
  OBVIOUS
<1>6. /\ <<a, upto[n]>> \in Gaps(text) /\ a \in 0 .. N /\ upto[n] \in a + 1 .. N + 1
      /\ pair = Between(text, <<a, upto[n]>>)
  BY <1>4 DEF Placed
<1>7. pair = SubSeq(text, a + 1, b) /\ pair \in Seq(C)
  <2>1. pair \in Seq(C)
    BY <1>1
  <2>2. Between(text, <<a, upto[n]>>) = SubSeq(text, a + 1, b)
    BY DEF Between
  <2> HIDE DEF pair, a, b
  <2> QED
    BY <1>6, <2>1, <2>2
<1>8. IsGap(text, "&", N, a, upto[n])
  BY <1>6, GapsAreGaps
<1>9. a \in 0 .. N /\ b \in a .. N
  BY <1>5, <1>6
<1>10. \A i \in a + 1 .. b : text[i] # "&"
  BY <1>8 DEF IsGap
<1>11. PICK k \in Seq(C), v \in Seq(C) : field = <<k, v>> /\ PartsOf(pair, k, v)
  <2> HIDE DEF pair
  <2>1. field \in FieldsOf(pair)
    BY <1>3 DEF pair
  <2> QED
    BY <1>7, <2>1, FieldsAreParts
<1> HIDE DEF pair, a, b
<1>12. Len(pair) = b - a /\ \A i \in 1 .. b - a : pair[i] = text[a + i]
  BY <1>7, <1>9, Piece
<1>13. ASSUME NEW x \in 0 .. b - a, NEW y \in x .. b - a,
              \A i \in x + 1 .. y : pair[i] # "="
       PROVE  SubSeq(pair, x + 1, y) \in names
  <2> DEFINE t == SubSeq(pair, x + 1, y)
             c == a + x
             d == a + y
  <2>1. x \in 0 .. Len(pair) /\ y \in x .. Len(pair)
    BY <1>5, <1>9, <1>12
  <2>2. t \in Seq(C) /\ Len(t) = y - x /\ \A i \in 1 .. y - x : t[i] = pair[x + i]
    BY <1>7, <2>1, Piece
  <2>3. t = SubSeq(text, c + 1, d)
    BY <1>7, <1>9, PieceOfPiece
  <2>4. c \in 0 .. N /\ d \in 0 .. N
    BY <1>5, <1>9
  <2> HIDE DEF t, c, d
  <2>5. t \in Texts(text)
    BY <2>3, <2>4 DEF Texts
  <2>6. ASSUME NEW i \in 1 .. Len(t) PROVE t[i] # "=" /\ t[i] # "&"
    <3>1. /\ i \in 1 .. y - x /\ x + i \in x + 1 .. y /\ x + i \in 1 .. b - a
          /\ a + (x + i) \in a + 1 .. b
      BY <1>5, <1>9, <2>2
    <3>2. t[i] = pair[x + i] /\ pair[x + i] = text[a + (x + i)]
      BY <1>12, <2>2, <3>1
    <3> QED
      BY <1>10, <1>13, <3>1, <3>2
  <2>7. Plain(t)
    BY <2>2, <2>6, PlainIsWithout DEF Without
  <2> QED
    BY <2>5, <2>7 DEF t
<1>14. PICK x \in 0 .. Len(pair), y \in 0 .. Len(pair) :
         /\ k = SubSeq(pair, 1, x) /\ \A i \in 1 .. x : pair[i] # "="
         /\ v = SubSeq(pair, y + 1, Len(pair)) /\ \A i \in y + 1 .. Len(pair) : pair[i] # "="
  BY <1>11 DEF PartsOf
<1>15. k \in names
  <2>1. 0 \in 0 .. b - a /\ x \in 0 .. b - a /\ 0 + 1 = 1
    BY <1>5, <1>9, <1>12
  <2>2. SubSeq(pair, 0 + 1, x) \in names
    BY <1>13, <1>14, <2>1
  <2> QED
    BY <1>14, <2>1, <2>2
<1>16. v \in names
  <2>1. y \in 0 .. b - a /\ b - a \in y .. b - a
    BY <1>5, <1>9, <1>12
  <2> QED
    BY <1>12, <1>13, <1>14, <2>1
<1> QED
  BY <1>11, <1>15, <1>16

(* What a handler gets of a body is what the reference definition reads in *)
(* it.                                                                     *)
LEMMA FormsAreRead ==
  ASSUME body \in Seq(Chars)
  PROVE  FormReference
<1> DEFINE C == Chars \cup {"=", "&"}
           names == {t \in Texts(body) : Plain(t)}
<1>1. body \in Seq(C) /\ "=" \in C
  OBVIOUS
<1> HIDE DEF C
<1>2. DOMAIN DecodeForm(body) \subseteq names \X names
  BY <1>1, FormNames
<1>3. ASSUME NEW k \in names, NEW v \in names
      PROVE  Copies(<<k, v>>, DecodeForm(body)) = Cardinality(PairPlaces(body, k, v))
  <2>1. \A t \in Texts(body) : t \in Seq(C)
    <3> SUFFICES ASSUME NEW t \in Texts(body) PROVE t \in Seq(C)
      OBVIOUS
    <3>1. PICK i \in 0 .. Len(body), j \in 0 .. Len(body) : t = SubSeq(body, i + 1, j)
      BY DEF Texts
    <3>2. i + 1 \in Int /\ j \in Int /\ \A n \in i + 1 .. j : body[n] \in C
      BY <1>1
    <3> QED
      BY <3>1, <3>2, SubSeqProperties
  <2>2. k \in Seq(C) /\ v \in Seq(C) /\ Plain(k) /\ Plain(v)
    BY <2>1
  <2> QED
    BY <1>1, <2>2, FormCounts
<1> QED
  BY <1>2, <1>3 DEF FormReference

(* Of any body of any length, whatever separators it has where, the        *)
(* handler gets exactly the pairs that stand in it, each as often as it    *)
(* stands there (content_traits.h:81-106).                                 *)
THEOREM FormsAlwaysRead == RequestSpec => []FormReference
<1>1. RequestTypeOK => FormReference
  BY FormsAreRead DEF RequestTypeOK
<1> QED
  BY <1>1, RequestTypeInvariance, PTL

-----------------------------------------------------------------------------
(* The loop of Encoded, and its body.                                      *)
EncodeLoop(text, list) ==
  text = [n \in 0 .. Len(list) |->
            IF n = 0 THEN <<>>
            ELSE IF n = 1 THEN EncodeField(list[n])
            ELSE text[n - 1] \o <<"&">> \o EncodeField(list[n])]

NextEncoded(before, list, n) ==
  IF n = 1 THEN EncodeField(list[n]) ELSE before \o <<"&">> \o EncodeField(list[n])

(* The words a client fills in have no separators.                         *)
LEMMA WordsArePlain ==
  ASSUME NEW w \in Words
  PROVE  w \in Seq(Chars \cup {"=", "&"}) /\ Without(w, "=") /\ Without(w, "&") /\ Plain(w)
<1>1. PICK n \in 0 .. MaxWord : w \in [1 .. n -> Chars \ {"&", "="}]
  BY DEF Words
<1>2. n \in Nat
  OBVIOUS
<1>3. w \in Seq(Chars \ {"&", "="})
  BY <1>1, <1>2
<1>4. \A i \in 1 .. Len(w) : w[i] \in Chars \ {"&", "="}
  BY <1>3
<1>5. w \in Seq(Chars \cup {"=", "&"})
  BY <1>1, <1>2
<1>6. Without(w, "=") /\ Without(w, "&")
  BY <1>4 DEF Without
<1> QED
  BY <1>5, <1>6, PlainIsWithout

(* A field's text has no separator of pairs.                               *)
LEMMA FieldText ==
  ASSUME NEW f \in Words \X Words
  PROVE  /\ EncodeField(f) \in Seq(Chars \cup {"=", "&"})
         /\ Without(EncodeField(f), "&")
<1> DEFINE C == Chars \cup {"=", "&"}
<1> DEFINE k == f[1]
           v == f[2]
<1>1. k \in Words /\ v \in Words
  OBVIOUS
<1> HIDE DEF k, v
<1>2. k \in Seq(C) /\ v \in Seq(C) /\ Without(k, "&") /\ Without(v, "&")
  BY <1>1, WordsArePlain
<1>3. "=" \in C
  OBVIOUS
<1> HIDE DEF C
<1> DEFINE s == k \o <<"=">> \o v
<1>4. /\ s \in Seq(C)
      /\ Len(s) = Len(k) + 1 + Len(v)
      /\ \A i \in 1 .. Len(k) : s[i] = k[i]
      /\ s[Len(k) + 1] = "="
      /\ \A i \in 1 .. Len(v) : s[Len(k) + 1 + i] = v[i]
      /\ Len(k) \in Nat /\ Len(v) \in Nat
  BY <1>2, <1>3, Joined
<1> HIDE DEF s
<1>5. ASSUME NEW i \in 1 .. Len(s) PROVE s[i] # "&"
  <2>1. CASE i <= Len(k)
    <3>1. i \in 1 .. Len(k)
      BY <1>4, <2>1
    <3> QED
      BY <1>2, <1>4, <3>1 DEF Without
  <2>2. CASE i = Len(k) + 1
    BY <1>4, <2>2
  <2>3. CASE i > Len(k) + 1
    <3> DEFINE j == i - (Len(k) + 1)
    <3>1. j \in 1 .. Len(v) /\ Len(k) + 1 + j = i
      BY <1>4, <2>3
    <3> HIDE DEF j
    <3> QED
      BY <1>2, <1>4, <3>1 DEF Without
  <2> QED
    BY <1>4, <2>1, <2>2, <2>3
<1>6. EncodeField(f) = s
  BY DEF EncodeField, s, k, v
<1> QED
  BY <1>4, <1>5, <1>6 DEF Without, C

(* Encoded is the last value of its loop.                                  *)
LEMMA EncodedLoop ==
  ASSUME form \in Seq(Words \X Words)
  PROVE  \E text : /\ EncodeLoop(text, form)
                   /\ Encoded = text[Len(form)]
<1> DEFINE N == Len(form)
           C == Chars \cup {"=", "&"}
           Acc == Seq(C)
           step == [n \in 1 .. N |-> [a \in Acc |-> NextEncoded(a, form, n)]]
<1>1. N \in Nat /\ <<>> \in Acc /\ "&" \in C
  <2> HIDE DEF C
  <2>1. N \in Nat /\ <<>> \in Acc
    OBVIOUS
  <2> QED
    BY <2>1 DEF C
<1>2. \A n \in 1 .. N : form[n] \in Words \X Words
  <2> HIDE DEF Words
  <2> QED
    OBVIOUS
<1>3. \A n \in 1 .. N, a \in Acc : NextEncoded(a, form, n) \in Acc
  <2> SUFFICES ASSUME NEW n \in 1 .. N, NEW a \in Acc PROVE NextEncoded(a, form, n) \in Acc
    OBVIOUS
  <2>1. EncodeField(form[n]) \in Seq(C)
    BY <1>2, FieldText
  <2> HIDE DEF C
  <2>2. a \o <<"&">> \o EncodeField(form[n]) \in Seq(C)
    BY <1>1, <2>1, Joined
  <2> QED
    BY <2>1, <2>2 DEF NextEncoded
<1>4. step \in [1 .. N -> [Acc -> Acc]]
  <2> HIDE DEF Acc, N
  <2> QED
    BY <1>3
<1>5. PICK f : IsLoop(f, N, Acc, <<>>, step)
  <2> HIDE DEF step, Acc, N
  <2> QED
    BY <1>1, <1>4, LoopExists
<1>6. \A n \in 1 .. N : f[n] = NextEncoded(f[n - 1], form, n)
  <2> SUFFICES ASSUME NEW n \in 1 .. N PROVE f[n] = NextEncoded(f[n - 1], form, n)
    OBVIOUS
  <2>1. f[n - 1] \in Acc /\ f[n] = step[n][f[n - 1]]
    <3> HIDE DEF Acc, step, N
    <3> QED
      BY <1>1, <1>5 DEF IsLoop
  <2> HIDE DEF Acc
  <2> QED
    BY <2>1
<1>7. EncodeLoop(f, form)
  <2>1. \A n \in 0 .. N : f[n] = IF n = 0 THEN <<>> ELSE NextEncoded(f[n - 1], form, n)
    BY <1>1, <1>5, <1>6 DEF IsLoop
  <2>2. f = [n \in 0 .. N |-> f[n]]
    BY <1>5 DEF IsLoop
  <2> QED
    BY <2>1, <2>2 DEF EncodeLoop, NextEncoded
<1>8. Encoded = (CHOOSE text : EncodeLoop(text, form))[N]
  BY DEF Encoded, EncodeLoop
<1> QED
  BY <1>7, <1>8

(* The pairs of an encoded form stand in its gaps, one by one.             *)
PlacesOf(text, from, upto, list, n) ==
  /\ \A i \in 1 .. n : /\ <<from[i], upto[i]>> \in Gaps(text)
                       /\ Between(text, <<from[i], upto[i]>>) = EncodeField(list[i])
  /\ \A i, j \in 1 .. n : i # j => from[i] # from[j]
  /\ \A p \in Gaps(text) : \E i \in 1 .. n : p = <<from[i], upto[i]>>

(* What the loop of Encoded keeps.                                         *)
EncodedInv(text, list, n) ==
  /\ text \in Seq(Chars \cup {"=", "&"})
  /\ n = 0 => text = <<>>
  /\ n > 0 => \E from, upto : PlacesOf(text, from, upto, list, n)

(* The text of one field is one pair.                                      *)
LEMMA FirstEncoded ==
  ASSUME NEW list, list[1] \in Words \X Words
  PROVE  EncodedInv(EncodeField(list[1]), list, 1)
<1> DEFINE text == EncodeField(list[1])
           N == Len(text)
           from == [i \in 1 .. 1 |-> 0]
           upto == [i \in 1 .. 1 |-> N + 1]
<1>1. text \in Seq(Chars \cup {"=", "&"}) /\ Without(text, "&")
  BY FieldText
<1> HIDE DEF text
<1>2. N \in Nat
  BY <1>1
<1>3. \A a, b : <<a, b>> \in Gaps(text) <=> IsGap(text, "&", N, a, b)
  BY <1>1, GapsAreGaps
<1>4. \A p \in Gaps(text) : p = <<p[1], p[2]>>
  BY <1>1, GapsAreGaps
<1>5. SubSeq(text, 1, N) = text
  BY <1>1, SubSeqFull
<1> HIDE DEF N
<1>6. \A a, b : IsGap(text, "&", N, a, b) <=> a = 0 /\ b = N + 1
  <2> SUFFICES ASSUME NEW a, NEW b PROVE IsGap(text, "&", N, a, b) <=> a = 0 /\ b = N + 1
    OBVIOUS
  <2>1. \A i \in 1 .. N : text[i] # "&"
    BY <1>1 DEF Without, N
  <2>2. ASSUME a = 0, b = N + 1 PROVE IsGap(text, "&", N, a, b)
    <3>1. \A i \in a + 1 .. b - 1 : i \in 1 .. N
      BY <1>2, <2>2
    <3> QED
      BY <1>2, <2>1, <2>2, <3>1 DEF IsGap
  <2>3. ASSUME IsGap(text, "&", N, a, b) PROVE a = 0 /\ b = N + 1
    <3>1. /\ a \in 0 .. N /\ b \in a + 1 .. N + 1
          /\ a = 0 \/ text[a] = "&"
          /\ b = N + 1 \/ text[b] = "&"
      BY <2>3 DEF IsGap
    <3> QED
      BY <1>2, <2>1, <3>1
  <2> QED
    BY <2>2, <2>3
<1>7. from[1] = 0 /\ upto[1] = N + 1 /\ \A i \in 1 .. 1 : i = 1
  OBVIOUS
<1>8. Between(text, <<0, N + 1>>) = text
  <2>1. 0 + 1 = 1 /\ (N + 1) - 1 = N
    BY <1>2
  <2> QED
    BY <1>5, <2>1 DEF Between
<1> HIDE DEF from, upto
<1>9. \A p \in Gaps(text) : p = <<0, N + 1>>
  <2> SUFFICES ASSUME NEW p \in Gaps(text) PROVE p = <<0, N + 1>>
    OBVIOUS
  <2>1. p = <<p[1], p[2]>>
    BY <1>4
  <2>2. IsGap(text, "&", N, p[1], p[2])
    BY <1>3, <2>1
  <2>3. p[1] = 0 /\ p[2] = N + 1
    BY <1>6, <2>2
  <2> QED
    BY <2>1, <2>3
<1>10. <<0, N + 1>> \in Gaps(text)
  BY <1>3, <1>6
<1>11. PlacesOf(text, from, upto, list, 1)
  <2>1. 1 \in 1 .. 1
    OBVIOUS
  <2>2. \A i \in 1 .. 1 : /\ <<from[i], upto[i]>> \in Gaps(text)
                          /\ Between(text, <<from[i], upto[i]>>) = EncodeField(list[i])
    BY <1>7, <1>8, <1>10 DEF text
  <2>3. \A i, j \in 1 .. 1 : i # j => from[i] # from[j]
    BY <1>7
  <2>4. \A p \in Gaps(text) : \E i \in 1 .. 1 : p = <<from[i], upto[i]>>
    BY <1>7, <1>9, <2>1
  <2> QED
    BY <2>2, <2>3, <2>4 DEF PlacesOf
<1> QED
  BY <1>1, <1>11 DEF EncodedInv, text

(* Joining one more field adds its gap and keeps the others.               *)
LEMMA JoinedGaps ==
  ASSUME NEW C, "&" \in C, NEW text \in Seq(C), NEW e \in Seq(C), Without(e, "&")
  PROVE  LET more == text \o <<"&">> \o e
             N == Len(text)
         IN  /\ \A a, b : IsGap(more, "&", Len(more), a, b)
                            <=> \/ IsGap(text, "&", N, a, b)
                                \/ a = N + 1 /\ b = Len(more) + 1
             /\ \A a, b : IsGap(text, "&", N, a, b)
                            => Between(more, <<a, b>>) = Between(text, <<a, b>>)
             /\ Between(more, <<N + 1, Len(more) + 1>>) = e
<1> DEFINE more == text \o <<"&">> \o e
           N == Len(text)
           K == Len(more)
<1>1. /\ more \in Seq(C)
      /\ K = N + 1 + Len(e)
      /\ \A i \in 1 .. N : more[i] = text[i]
      /\ more[N + 1] = "&"
      /\ \A i \in 1 .. Len(e) : more[N + 1 + i] = e[i]
      /\ N \in Nat /\ Len(e) \in Nat
  BY Joined
<1>2. e = SubSeq(more, N + 2, K)
  BY JoinedHalves
<1>3. text \in Seq(C) /\ N = Len(text) /\ more \in Seq(C) /\ K = Len(more)
  BY <1>1
<1> HIDE DEF more, N, K
<1>4. K \in Nat /\ N + 1 \in 1 .. K
  BY <1>1
<1>5. \A i \in N + 2 .. K : more[i] # "&"
  <2> SUFFICES ASSUME NEW i \in N + 2 .. K PROVE more[i] # "&"
    OBVIOUS
  <2> DEFINE j == i - (N + 1)
  <2>1. j \in 1 .. Len(e) /\ N + 1 + j = i
    BY <1>1
  <2> HIDE DEF j
  <2> QED
    BY <1>1, <2>1 DEF Without
<1>6. ASSUME NEW a, NEW b, IsGap(text, "&", N, a, b)
      PROVE  IsGap(more, "&", K, a, b) /\ Between(more, <<a, b>>) = Between(text, <<a, b>>)
  <2>1. /\ a \in 0 .. N /\ b \in a + 1 .. N + 1
        /\ a = 0 \/ text[a] = "&"
        /\ b = N + 1 \/ text[b] = "&"
        /\ \A i \in a + 1 .. b - 1 : text[i] # "&"
    BY <1>6 DEF IsGap
  <2>2. a \in 0 .. K /\ b \in a + 1 .. K + 1
    BY <1>1, <1>4, <2>1
  <2>3. a = 0 \/ more[a] = "&"
    <3>1. a = 0 \/ a \in 1 .. N
      BY <1>1, <2>1
    <3> QED
      BY <1>1, <2>1, <3>1
  <2>4. b = K + 1 \/ more[b] = "&"
    <3>1. b = N + 1 \/ b \in 1 .. N
      BY <1>1, <2>1
    <3> QED
      BY <1>1, <2>1, <3>1
  <2>5. \A i \in a + 1 .. b - 1 : i \in 1 .. N
    BY <1>1, <2>1
  <2>6. \A i \in a + 1 .. b - 1 : more[i] # "&"
    BY <1>1, <2>1, <2>5
  <2>7. IsGap(more, "&", K, a, b)
    BY <2>2, <2>3, <2>4, <2>6 DEF IsGap
  <2>8. SubSeq(more, a + 1, b - 1) = SubSeq(text, a + 1, b - 1)
    <3> DEFINE s == SubSeq(text, a + 1, b - 1)
               d == b - 1
    <3>1. /\ a \in 0 .. Len(text) /\ d \in a .. Len(text)
          /\ a \in 0 .. Len(more) /\ d \in a .. Len(more)
      BY <1>1, <1>3, <1>4, <2>1
    <3>2. s \in Seq(C) /\ Len(s) = d - a /\ \A i \in 1 .. d - a : s[i] = text[a + i]
      BY <1>3, <3>1, Piece
    <3>3. \A i \in 1 .. d - a : a + i \in 1 .. N
      BY <1>1, <2>1
    <3> HIDE DEF d
    <3>4. \A i \in 1 .. d - a : s[i] = more[a + i]
      BY <1>1, <3>2, <3>3
    <3> HIDE DEF s
    <3>5. s = SubSeq(more, a + 1, d)
      BY <1>3, <3>1, <3>2, <3>4, PieceIs
    <3> QED
      BY <3>5 DEF s, d
  <2> QED
    BY <2>7, <2>8 DEF Between
<1>7. IsGap(more, "&", K, N + 1, K + 1)
  <2>1. N + 1 \in 0 .. K /\ K + 1 \in (N + 1) + 1 .. K + 1
    BY <1>1, <1>4
  <2>2. \A i \in (N + 1) + 1 .. (K + 1) - 1 : i \in N + 2 .. K
    BY <1>1, <1>4
  <2>3. \A i \in (N + 1) + 1 .. (K + 1) - 1 : more[i] # "&"
    BY <1>5, <2>2
  <2> QED
    BY <1>1, <2>1, <2>3 DEF IsGap
<1>8. ASSUME NEW a, NEW b, IsGap(more, "&", K, a, b)
      PROVE  IsGap(text, "&", N, a, b) \/ (a = N + 1 /\ b = K + 1)
  <2>1. /\ a \in 0 .. K /\ b \in a + 1 .. K + 1
        /\ a = 0 \/ more[a] = "&"
        /\ b = K + 1 \/ more[b] = "&"
        /\ \A i \in a + 1 .. b - 1 : more[i] # "&"
    BY <1>8 DEF IsGap
  <2>2. a <= N + 1
    BY <1>1, <1>4, <1>5, <2>1
  <2>3. CASE a = N + 1
    <3>1. b = K + 1
      <4> SUFFICES ASSUME b # K + 1 PROVE FALSE
        OBVIOUS
      <4>1. b \in N + 2 .. K
        BY <1>1, <1>4, <2>1, <2>3
      <4> QED
        BY <1>5, <2>1, <4>1
    <3> QED
      BY <2>3, <3>1
  <2>4. CASE a # N + 1
    <3>1. a \in 0 .. N
      BY <1>1, <1>4, <2>1, <2>2, <2>4
    <3>2. b \in a + 1 .. N + 1
      <4> SUFFICES ASSUME b > N + 1 PROVE FALSE
        BY <1>1, <1>4, <2>1, <3>1
      <4>1. N + 1 \in a + 1 .. b - 1
        BY <1>1, <1>4, <2>1, <3>1
      <4> QED
        BY <1>1, <2>1, <4>1
    <3>3. a = 0 \/ text[a] = "&"
      <4>1. a = 0 \/ a \in 1 .. N
        BY <1>1, <3>1
      <4> QED
        BY <1>1, <2>1, <4>1
    <3>4. b = N + 1 \/ text[b] = "&"
      <4>1. b = N + 1 \/ b \in 1 .. N
        BY <1>1, <3>1, <3>2
      <4>2. b \in 1 .. N => b # K + 1
        BY <1>1, <1>4
      <4> QED
        BY <1>1, <2>1, <4>1, <4>2
    <3>5. \A i \in a + 1 .. b - 1 : i \in 1 .. N
      BY <1>1, <3>1, <3>2
    <3>6. \A i \in a + 1 .. b - 1 : text[i] # "&"
      BY <1>1, <2>1, <3>5
    <3> QED
      BY <3>1, <3>2, <3>3, <3>4, <3>6 DEF IsGap
  <2> QED
    BY <2>3, <2>4
<1>9. Between(more, <<N + 1, K + 1>>) = e
  <2>1. (N + 1) + 1 = N + 2 /\ (K + 1) - 1 = K
    BY <1>1, <1>4
  <2> QED
    BY <1>2, <2>1 DEF Between
<1>10. \A a, b : IsGap(more, "&", K, a, b) <=> IsGap(text, "&", N, a, b) \/ (a = N + 1 /\ b = K + 1)
  BY <1>6, <1>7, <1>8
<1>11. \A a, b : IsGap(text, "&", N, a, b) => Between(more, <<a, b>>) = Between(text, <<a, b>>)
  BY <1>6
<1> QED
  BY <1>9, <1>10, <1>11 DEF more, N, K

(* One more field is one more pair, behind the others, and leaves them     *)
(* where they were.                                                        *)
LEMMA MoreEncoded ==
  ASSUME NEW list, NEW n \in Nat, n > 1, NEW text, EncodedInv(text, list, n - 1),
         list[n] \in Words \X Words
  PROVE  EncodedInv(text \o <<"&">> \o EncodeField(list[n]), list, n)
<1> DEFINE C == Chars \cup {"=", "&"}
           e == EncodeField(list[n])
           more == text \o <<"&">> \o e
           N == Len(text)
           K == Len(more)
<1>1. text \in Seq(C) /\ n - 1 > 0
  BY DEF EncodedInv
<1>2. PICK from, upto : PlacesOf(text, from, upto, list, n - 1)
  BY <1>1 DEF EncodedInv
<1>3. e \in Seq(C) /\ Without(e, "&")
  BY FieldText
<1>4. "&" \in C
  OBVIOUS
<1> HIDE DEF C, e
<1>5. /\ \A a, b : IsGap(more, "&", K, a, b) <=> \/ IsGap(text, "&", N, a, b)
                                                 \/ a = N + 1 /\ b = K + 1
      /\ \A a, b : IsGap(text, "&", N, a, b)
                     => Between(more, <<a, b>>) = Between(text, <<a, b>>)
      /\ Between(more, <<N + 1, K + 1>>) = e
  BY <1>1, <1>3, <1>4, JoinedGaps
<1>6. more \in Seq(C) /\ N \in Nat
  BY <1>1, <1>3, <1>4, Joined
<1>7. /\ \A a, b : <<a, b>> \in Gaps(more) <=> IsGap(more, "&", K, a, b)
      /\ \A p \in Gaps(more) : p = <<p[1], p[2]>>
      /\ \A a, b : <<a, b>> \in Gaps(text) <=> IsGap(text, "&", N, a, b)
  BY <1>1, <1>6, GapsAreGaps
<1> HIDE DEF more, N, K
<1> DEFINE since == [i \in 1 .. n |-> IF i = n THEN N + 1 ELSE from[i]]
           until == [i \in 1 .. n |-> IF i = n THEN K + 1 ELSE upto[i]]
<1>8. /\ 1 .. n = 1 .. n - 1 \cup {n} /\ n \in 1 .. n
      /\ since[n] = N + 1 /\ until[n] = K + 1
      /\ \A i \in 1 .. n - 1 : i # n /\ since[i] = from[i] /\ until[i] = upto[i]
  OBVIOUS
<1> HIDE DEF since, until
<1>9. /\ \A i \in 1 .. n - 1 : /\ <<from[i], upto[i]>> \in Gaps(text)
                               /\ Between(text, <<from[i], upto[i]>>) = EncodeField(list[i])
      /\ \A i, j \in 1 .. n - 1 : i # j => from[i] # from[j]
      /\ \A p \in Gaps(text) : \E i \in 1 .. n - 1 : p = <<from[i], upto[i]>>
  BY <1>2 DEF PlacesOf
<1>10. \A i \in 1 .. n - 1 : IsGap(text, "&", N, from[i], upto[i]) /\ from[i] # N + 1
  <2> SUFFICES ASSUME NEW i \in 1 .. n - 1
               PROVE  IsGap(text, "&", N, from[i], upto[i]) /\ from[i] # N + 1
    OBVIOUS
  <2>1. IsGap(text, "&", N, from[i], upto[i])
    BY <1>7, <1>9
  <2>2. from[i] \in 0 .. N
    BY <2>1 DEF IsGap
  <2> QED
    BY <1>6, <2>1, <2>2
<1>11. ASSUME NEW i \in 1 .. n
       PROVE  /\ <<since[i], until[i]>> \in Gaps(more)
              /\ Between(more, <<since[i], until[i]>>) = EncodeField(list[i])
  <2>1. CASE i = n
    <3>1. IsGap(more, "&", K, N + 1, K + 1)
      BY <1>5
    <3> QED
      BY <1>5, <1>7, <1>8, <2>1, <3>1 DEF e
  <2>2. CASE i \in 1 .. n - 1
    <3>1. IsGap(text, "&", N, from[i], upto[i])
      BY <1>10, <2>2
    <3>2. /\ IsGap(more, "&", K, from[i], upto[i])
          /\ Between(more, <<from[i], upto[i]>>) = Between(text, <<from[i], upto[i]>>)
      BY <1>5, <3>1
    <3> QED
      BY <1>7, <1>8, <1>9, <2>2, <3>2
  <2> QED
    BY <1>8, <2>1, <2>2
<1>12. ASSUME NEW i \in 1 .. n, NEW j \in 1 .. n, i # j PROVE since[i] # since[j]
  BY <1>8, <1>9, <1>10, <1>12
<1>13. ASSUME NEW p \in Gaps(more) PROVE \E i \in 1 .. n : p = <<since[i], until[i]>>
  <2> DEFINE a == p[1]
             b == p[2]
  <2>1. p = <<a, b>>
    BY <1>7
  <2> HIDE DEF a, b
  <2>2. IsGap(text, "&", N, a, b) \/ (a = N + 1 /\ b = K + 1)
    BY <1>5, <1>7, <2>1
  <2>3. CASE IsGap(text, "&", N, a, b)
    <3>1. PICK i \in 1 .. n - 1 : p = <<from[i], upto[i]>>
      BY <1>7, <1>9, <2>1, <2>3
    <3> QED
      BY <1>8, <3>1
  <2>4. CASE a = N + 1 /\ b = K + 1
    BY <1>8, <2>1, <2>4
  <2> QED
    BY <2>2, <2>3, <2>4
<1>14. PlacesOf(more, since, until, list, n)
  BY <1>11, <1>12, <1>13 DEF PlacesOf
<1>15. EncodedInv(more, list, n)
  BY <1>6, <1>14 DEF EncodedInv, C
<1> QED
  BY <1>15 DEF more, e

(* The pairs of an encoded form are its fields, one by one.                *)
LEMMA EncodedIsEncoded ==
  ASSUME form \in Seq(Words \X Words)
  PROVE  EncodedInv(Encoded, form, Len(form))
<1> DEFINE N == Len(form)
<1>1. N \in Nat /\ \A n \in 1 .. N : form[n] \in Words \X Words
  <2> HIDE DEF Words
  <2> QED
    OBVIOUS
<1>2. PICK text : EncodeLoop(text, form) /\ Encoded = text[N]
  BY EncodedLoop
<1> DEFINE P(n) == EncodedInv(text[n], form, n)
           S == {n \in 0 .. N : P(n)}
<1>3. text[0] = <<>>
  BY <1>1, <1>2 DEF EncodeLoop
<1>4. ASSUME NEW n \in 1 .. N PROVE text[n] = NextEncoded(text[n - 1], form, n)
  <2>1. text = [m \in 0 .. N |-> IF m = 0 THEN <<>> ELSE NextEncoded(text[m - 1], form, m)]
    BY <1>2 DEF EncodeLoop, NextEncoded
  <2>2. n \in 0 .. N /\ n # 0
    BY <1>1
  <2> HIDE DEF N
  <2> QED
    BY <2>1, <2>2
<1>5. P(0)
  BY <1>3 DEF EncodedInv
<1>6. ASSUME NEW n \in 1 .. N, P(n - 1) PROVE P(n)
  <2>1. form[n] \in Words \X Words
    BY <1>1
  <2>2. CASE n = 1
    <3>1. text[n] = EncodeField(form[1])
      BY <1>4, <2>2 DEF NextEncoded
    <3> QED
      BY <2>1, <2>2, <3>1, FirstEncoded
  <2>3. CASE n # 1
    <3>1. n \in Nat /\ n > 1
      BY <2>3
    <3>2. text[n] = text[n - 1] \o <<"&">> \o EncodeField(form[n])
      BY <1>4, <2>3 DEF NextEncoded
    <3>3. EncodedInv(text[n - 1], form, n - 1)
      BY <1>6
    <3>4. EncodedInv(text[n - 1] \o <<"&">> \o EncodeField(form[n]), form, n)
      BY <2>1, <3>1, <3>3, MoreEncoded
    <3> QED
      BY <3>2, <3>4
  <2> QED
    BY <2>2, <2>3
<1>7. Inductive(S, N)
  <2> HIDE DEF P
  <2> QED
    BY <1>1, <1>5, <1>6 DEF Inductive
<1>8. P(N)
  <2> HIDE DEF S
  <2>1. N \in S
    BY <1>1, <1>7, UpTo
  <2> QED
    BY <2>1 DEF S
<1> QED
  BY <1>2, <1>8

(* A field's text writes that field, and no other.                         *)
LEMMA FieldTextWrites ==
  ASSUME NEW f \in Words \X Words, NEW k \in Seq(Chars \cup {"=", "&"}),
         NEW v \in Seq(Chars \cup {"=", "&"}), Without(k, "="), Without(v, "=")
  PROVE  Writes(EncodeField(f), k, v) <=> f = <<k, v>>
<1> DEFINE C == Chars \cup {"=", "&"}
           x == f[1]
           y == f[2]
           s == x \o <<"=">> \o y
<1>1. x \in Words /\ y \in Words /\ f = <<x, y>>
  OBVIOUS
<1>2. EncodeField(f) = s
  BY DEF EncodeField
<1> HIDE DEF x, y
<1>3. x \in Seq(C) /\ y \in Seq(C) /\ Without(x, "=") /\ Without(y, "=")
  BY <1>1, WordsArePlain
<1>4. "=" \in C /\ k \in Seq(C) /\ v \in Seq(C)
  OBVIOUS
<1> HIDE DEF C
<1>5. OnlyAt(s, "=", Len(x) + 1)
  BY <1>3, <1>4, JoinedOnlyAt
<1>6. x = SubSeq(s, 1, Len(x)) /\ y = SubSeq(s, Len(x) + 2, Len(s))
  BY <1>3, <1>4, JoinedHalves
<1>7. Len(x) \in Nat /\ Len(k) \in Nat
  BY <1>3, <1>4
<1> HIDE DEF s
<1>8. ASSUME s = k \o <<"=">> \o v PROVE x = k /\ y = v
  <2>1. OnlyAt(s, "=", Len(k) + 1)
    BY <1>4, <1>8, JoinedOnlyAt
  <2>2. k = SubSeq(s, 1, Len(k)) /\ v = SubSeq(s, Len(k) + 2, Len(s))
    BY <1>4, <1>8, JoinedHalves
  <2>3. Len(k) + 1 = Len(x) + 1
    BY <1>5, <2>1 DEF OnlyAt
  <2>4. Len(k) = Len(x)
    BY <1>7, <2>3
  <2> QED
    BY <1>6, <2>2, <2>4
<1>9. s # k
  <2>1. s[Len(x) + 1] = "=" /\ Len(x) + 1 \in 1 .. Len(s)
    BY <1>5 DEF OnlyAt
  <2> QED
    BY <2>1 DEF Without
<1>10. ASSUME f = <<k, v>> PROVE s = k \o <<"=">> \o v
  <2>1. x = k /\ y = v
    BY <1>1, <1>10
  <2> QED
    BY <2>1 DEF s
<1> QED
  BY <1>1, <1>2, <1>8, <1>9, <1>10 DEF Writes

(* A field stands in the encoded form as often as the form has it.         *)
LEMMA EncodedPlaces ==
  ASSUME form \in Seq(Words \X Words),
         NEW k \in Seq(Chars \cup {"=", "&"}), NEW v \in Seq(Chars \cup {"=", "&"}),
         Plain(k), Plain(v)
  PROVE  Cardinality({i \in DOMAIN form : form[i] = <<k, v>>})
           = Cardinality(PairPlaces(Encoded, k, v))
<1> DEFINE C == Chars \cup {"=", "&"}
           N == Len(form)
           I == {i \in 1 .. N : form[i] = <<k, v>>}
           T == PairPlaces(Encoded, k, v)
<1>1. EncodedInv(Encoded, form, N)
  BY EncodedIsEncoded
<1>2. N \in Nat /\ DOMAIN form = 1 .. N /\ \A i \in 1 .. N : form[i] \in Words \X Words
  <2> HIDE DEF Words
  <2> QED
    OBVIOUS
<1>3. Without(k, "=") /\ Without(v, "=")
  BY PlainIsWithout
<1>4. T = {p \in Gaps(Encoded) : Writes(Between(Encoded, p), k, v)}
  BY DEF PairPlaces, Writes
<1>5. I \in SUBSET (1 .. N)
  OBVIOUS
<1> HIDE DEF T
<1>6. CASE N = 0
  <2>1. Encoded = <<>> /\ I = {}
    BY <1>1, <1>6 DEF EncodedInv
  <2>2. \A p \in Gaps(Encoded) : Between(Encoded, p) = <<>>
    <3> SUFFICES ASSUME NEW p \in Gaps(Encoded) PROVE Between(Encoded, p) = <<>>
      OBVIOUS
    <3>1. Encoded \in Seq(C) /\ Len(Encoded) = 0
      BY <2>1
    <3>2. p = <<p[1], p[2]>>
      BY <3>1, GapsAreGaps
    <3>3. IsGap(Encoded, "&", 0, p[1], p[2])
      BY <3>1, <3>2, GapsAreGaps
    <3>4. p[1] = 0 /\ p[2] = 1
      BY <3>3 DEF IsGap
    <3>5. SubSeq(Encoded, 0 + 1, 1 - 1) = <<>>
      BY SubSeqEmpty
    <3> QED
      BY <3>4, <3>5 DEF Between
  <2>3. ~ Writes(<<>>, k, v)
    <3>1. "=" \in C /\ k \in Seq(C) /\ v \in Seq(C)
      OBVIOUS
    <3> HIDE DEF C
    <3>2. k \o <<"=">> \o v # <<>>
      <4>1. Len(k \o <<"=">> \o v) = Len(k) + 1 + Len(v) /\ Len(k) \in Nat /\ Len(v) \in Nat
        BY <3>1, Joined
      <4> QED
        BY <4>1
    <3> QED
      BY <3>2 DEF Writes
  <2>4. T = {}
    BY <1>4, <2>2, <2>3
  <2>5. {i \in DOMAIN form : form[i] = <<k, v>>} = I
    BY <1>2
  <2> HIDE DEF I
  <2>6. {i \in DOMAIN form : form[i] = <<k, v>>} = T
    BY <2>1, <2>4, <2>5
  <2> QED
    BY <2>6 DEF T
<1>7. CASE N > 0
  <2>1. PICK from, upto : PlacesOf(Encoded, from, upto, form, N)
    BY <1>1, <1>7 DEF EncodedInv
  <2>2. /\ \A i \in 1 .. N : /\ <<from[i], upto[i]>> \in Gaps(Encoded)
                             /\ Between(Encoded, <<from[i], upto[i]>>) = EncodeField(form[i])
        /\ \A i, j \in 1 .. N : i # j => from[i] # from[j]
        /\ \A p \in Gaps(Encoded) : \E i \in 1 .. N : p = <<from[i], upto[i]>>
    BY <2>1 DEF PlacesOf
  <2>3. \A i \in 1 .. N : Writes(EncodeField(form[i]), k, v) <=> form[i] = <<k, v>>
    <3> SUFFICES ASSUME NEW i \in 1 .. N
                 PROVE  Writes(EncodeField(form[i]), k, v) <=> form[i] = <<k, v>>
      OBVIOUS
    <3> DEFINE f == form[i]
    <3>1. f \in Words \X Words
      BY <1>2
    <3> HIDE DEF f
    <3>2. Writes(EncodeField(f), k, v) <=> f = <<k, v>>
      BY <1>3, <3>1, FieldTextWrites
    <3> QED
      BY <3>2 DEF f
  <2> DEFINE g == [i \in 1 .. N |-> <<from[i], upto[i]>>]
  <2>4. \A i \in 1 .. N : g[i] = <<from[i], upto[i]>>
    OBVIOUS
  <2>5. \A i \in I : i \in 1 .. N /\ form[i] = <<k, v>>
    OBVIOUS
  <2>6. \A i \in 1 .. N : form[i] = <<k, v>> => i \in I
    OBVIOUS
  <2> HIDE DEF g, I
  <2>7. \A i \in I : g[i] \in T
    <3> SUFFICES ASSUME NEW i \in I PROVE g[i] \in T
      OBVIOUS
    <3>1. i \in 1 .. N /\ form[i] = <<k, v>> /\ g[i] = <<from[i], upto[i]>>
      BY <2>4, <2>5
    <3>2. g[i] \in Gaps(Encoded) /\ Between(Encoded, g[i]) = EncodeField(form[i])
      BY <2>2, <3>1
    <3>3. Writes(EncodeField(form[i]), k, v)
      BY <2>3, <3>1
    <3> QED
      BY <1>4, <3>2, <3>3
  <2>8. \A i, j \in I : i # j => g[i] # g[j]
    <3> SUFFICES ASSUME NEW i \in I, NEW j \in I, i # j PROVE g[i] # g[j]
      OBVIOUS
    <3>1. from[i] # from[j] /\ g[i] = <<from[i], upto[i]>> /\ g[j] = <<from[j], upto[j]>>
      BY <2>2, <2>4, <2>5
    <3> QED
      BY <3>1
  <2>9. \A t \in T : \E i \in I : t = g[i]
    <3> SUFFICES ASSUME NEW t \in T PROVE \E i \in I : t = g[i]
      OBVIOUS
    <3>1. t \in Gaps(Encoded) /\ Writes(Between(Encoded, t), k, v)
      BY <1>4
    <3>2. PICK i \in 1 .. N : t = <<from[i], upto[i]>>
      BY <2>2, <3>1
    <3>3. Writes(EncodeField(form[i]), k, v)
      BY <2>2, <3>1, <3>2
    <3> QED
      BY <2>3, <2>4, <2>6, <3>2, <3>3
  <2>10. Cardinality(I) = Cardinality(T)
    BY <1>2, <1>5, <2>7, <2>8, <2>9, SameSize
  <2> QED
    BY <1>2, <2>10 DEF I, T
<1> QED
  BY <1>2, <1>6, <1>7

(* What a handler gets of an encoded form is the form.                     *)
LEMMA FormsComeBack ==
  ASSUME form \in Seq(Words \X Words)
  PROVE  FormRoundTrip
<1> DEFINE C == Chars \cup {"=", "&"}
<1>1. Encoded \in Seq(C) /\ "=" \in C
  <2>1. Encoded \in Seq(C)
    BY EncodedIsEncoded DEF EncodedInv
  <2> QED
    BY <2>1
<1>2. ASSUME NEW k \in Seq(C), NEW v \in Seq(C), Plain(k), Plain(v)
      PROVE  Copies(<<k, v>>, DecodeForm(Encoded))
               = Cardinality({i \in DOMAIN form : form[i] = <<k, v>>})
  <2>1. Cardinality({i \in DOMAIN form : form[i] = <<k, v>>})
          = Cardinality(PairPlaces(Encoded, k, v))
    BY <1>2, EncodedPlaces
  <2>2. Copies(<<k, v>>, DecodeForm(Encoded)) = Cardinality(PairPlaces(Encoded, k, v))
    <3> HIDE DEF C
    <3> QED
      BY <1>1, <1>2, FormCounts
  <2> QED
    BY <2>1, <2>2
<1>3. ASSUME NEW f \in DOMAIN DecodeForm(Encoded)
      PROVE  \E k, v \in Seq(C) : f = <<k, v>> /\ Plain(k) /\ Plain(v)
  <2> HIDE DEF C
  <2> DEFINE names == {t \in Texts(Encoded) : Plain(t)}
  <2>1. f \in names \X names
    BY <1>1, FormNames
  <2>2. \A t \in Texts(Encoded) : t \in Seq(C)
    <3> SUFFICES ASSUME NEW t \in Texts(Encoded) PROVE t \in Seq(C)
      OBVIOUS
    <3>1. PICK i \in 0 .. Len(Encoded), j \in 0 .. Len(Encoded) : t = SubSeq(Encoded, i + 1, j)
      BY DEF Texts
    <3>2. i + 1 \in Int /\ j \in Int /\ \A n \in i + 1 .. j : Encoded[n] \in C
      BY <1>1
    <3> QED
      BY <3>1, <3>2, SubSeqProperties
  <2>3. PICK k \in names, v \in names : f = <<k, v>>
    BY <2>1
  <2> QED
    BY <2>2, <2>3
<1>4. ASSUME NEW f \in ToSet(form)
      PROVE  \E k, v \in Seq(C) : f = <<k, v>> /\ Plain(k) /\ Plain(v)
  <2>1. f \in Words \X Words
    <3> HIDE DEF Words
    <3> QED
      BY DEF ToSet
  <2>2. PICK k \in Words, v \in Words : f = <<k, v>>
    BY <2>1
  <2> QED
    BY <2>2, WordsArePlain
<1> HIDE DEF C
<1>5. ASSUME NEW f \in DOMAIN DecodeForm(Encoded) \cup ToSet(form)
      PROVE  Copies(f, DecodeForm(Encoded)) = Cardinality({i \in DOMAIN form : form[i] = f})
  <2>1. PICK k \in Seq(C), v \in Seq(C) : f = <<k, v>> /\ Plain(k) /\ Plain(v)
    BY <1>3, <1>4
  <2> QED
    BY <1>2, <2>1
<1> QED
  BY <1>5 DEF FormRoundTrip

(* A form of any number of fields, of words of any length without          *)
(* separators, arrives as it was filled in, equal fields and empty words   *)
(* included (content_traits.h:84-104).                                     *)
THEOREM FormsAlwaysComeBack == RequestSpec => []FormRoundTrip
<1>1. RequestTypeOK => FormRoundTrip
  BY FormsComeBack DEF RequestTypeOK
<1> QED
  BY <1>1, RequestTypeInvariance, PTL

=============================================================================
