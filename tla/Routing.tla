------------------------------- MODULE Routing -------------------------------
(***************************************************************************)
(* The three routers: HttpRouterCoro and HttpRouter, which keep their      *)
(* routes in a vector, and WebsocketRouter, which keeps them in a map.     *)
(* The application adds its routes, then the server runs and its sessions  *)
(* (HTTP or websocket, of either server) ask the routers, each for one     *)
(* request or message after another.                                       *)
(*                                                                         *)
(* A route is known by the path, the method and the call of add_route that *)
(* made it.  What a handler does is open: it ends with a response of any   *)
(* kind, without one, or with an exception.                                *)
(***************************************************************************)
EXTENDS Content

CONSTANTS
  Sessions,
  Paths,
  Methods,
  MaxRoutes             \* bound: calls of add_route

(* "invalid" stands for a target that is no URL, and is no path.           *)
ASSUME PathsAssumption == "invalid" \notin Paths
ASSUME MaxRoutesAssumption == MaxRoutes \in Nat

VARIABLES
  added,                \* the calls of add_route, in order
  m_routes,             \* the vectors of the HTTP routers
  ws_routes,            \* the map of the websocket router
  running,              \* has the application called run()?
  asked,                \* what each session has asked
  route,                \* the route whose handler it has come to
  given,                \* what that handler has been given
  fate,                 \* how it has ended
  answer                \* what the router has returned

tableVars == <<added, m_routes, ws_routes, running>>
vars == <<tableVars, asked, route, given, fate, answer>>

HttpRouters == {"coro", "async"}
Bodies == {Malformed, Null, WithMessage("valid")}

(* A request has a target that is a URL with a path, or is no URL.         *)
HttpRequests ==
  [router : HttpRouters, method : Methods, path : Paths \cup {"invalid"},
   body : Bodies \cup {Empty}]
Messages == [router : {"websocket"}, path : Paths, body : Bodies]

None == <<"none">>
NoRequest == [router |-> "none"]
NoRoute == [router |-> "none"]
Throws == <<"exception">>

(* How handlers end: hello_json, by what the database has answered it, and *)
(* others that build a response, have none, or throw.                      *)
Names == {"valid", "invalid"}
Hellos == {<<"hello", u>> : u \in {Nullptr, <<>>} \cup {<<n, "valid">> : n \in Names}}
Builds == {<<"build", 404, "text", "text">>, <<"build", 200, "empty", "">>,
           <<"build", 200, "int", 0>>}
          \cup {<<"build", 200, "json", WithMessage(n)>> : n \in Names}
Ends == Hellos \cup Builds \cup {Nullptr, Throws}

TypeOK ==
  /\ \A r \in HttpRouters : ToSet(m_routes[r]) \subseteq ToSet(added)
  /\ \A p \in DOMAIN ws_routes : ws_routes[p] \in ToSet(added)
  /\ \A s \in Sessions :
       /\ asked[s] \in HttpRequests \cup Messages \cup {NoRequest}
       /\ route[s] \in ToSet(added) \cup {NoRoute}
       /\ given[s] \in {None, Null, WithMessage("valid"), Nullptr}
       /\ fate[s] \in Ends \cup {None, WsHelloJson(WithMessage("valid"))}

Init ==
  /\ added = <<>>
  /\ m_routes = [r \in HttpRouters |-> <<>>]
  /\ ws_routes = <<>>
  /\ running = FALSE
  /\ asked = [s \in Sessions |-> NoRequest]
  /\ route = [s \in Sessions |-> NoRoute]
  /\ given = [s \in Sessions |-> None]
  /\ fate = [s \in Sessions |-> None]
  /\ answer = [s \in Sessions |-> None]

-----------------------------------------------------------------------------
(* The application.                                                        *)

(* The routes are there before run() starts the threads (main_coro.cpp).   *)
MayAdd == ~ running /\ Len(added) < MaxRoutes

NewRoute(r, m, p) == [router |-> r, method |-> m, path |-> p, call |-> Len(added) + 1]

(* HttpRouterCoro::add_route and HttpRouter::add_route.                    *)
AddRoute(r, m, p) ==
  /\ MayAdd
  /\ added' = Append(added, NewRoute(r, m, p))
  /\ m_routes' = [m_routes EXCEPT ![r] = Append(@, NewRoute(r, m, p))]
  /\ UNCHANGED <<ws_routes, running, asked, route, given, fate, answer>>

(* WebsocketRouter::add_route: emplace leaves a route that is there.       *)
AddWsRoute(p) ==
  /\ MayAdd
  /\ added' = Append(added, NewRoute("websocket", "any", p))
  /\ ws_routes' = [path \in DOMAIN ws_routes \cup {p} |->
                     IF path \in DOMAIN ws_routes THEN ws_routes[path]
                     ELSE NewRoute("websocket", "any", p)]
  /\ UNCHANGED <<m_routes, running, asked, route, given, fate, answer>>

Run ==
  /\ ~ running
  /\ running' = TRUE
  /\ UNCHANGED <<added, m_routes, ws_routes, asked, route, given, fate, answer>>

-----------------------------------------------------------------------------
(* The sessions, and the routers they call.                                *)

(* A session calls its router again only after it has had its answer.      *)
Ask(s) ==
  /\ running
  /\ asked[s] = NoRequest \/ answer[s] # None
  /\ \E req \in HttpRequests \cup Messages : asked' = [asked EXCEPT ![s] = req]
  /\ route' = [route EXCEPT ![s] = NoRoute]
  /\ given' = [given EXCEPT ![s] = None]
  /\ fate' = [fate EXCEPT ![s] = None]
  /\ answer' = [answer EXCEPT ![s] = None]
  /\ UNCHANGED tableVars

(* A request that its router has not looked at yet.                        *)
Fresh(s, r) ==
  /\ asked[s].router = r
  /\ answer[s] = None
  /\ route[s] = NoRoute

(* get_route_handler: find_if stops at the first route that matches.       *)
Matching(r, req) ==
  {i \in DOMAIN m_routes[r] :
     m_routes[r][i].path = req.path /\ m_routes[r][i].method = req.method}

RouteHandler_LastOne(r, req) == m_routes[r][Max(Matching(r, req))]
RouteHandler(r, req) == m_routes[r][Min(Matching(r, req))]

(* What handle_request returns when the handler has ended.                 *)
Returned(end) ==
  CASE end = Nullptr      -> InternalServerError("500 Internal Server Error")
    [] end = Throws       -> InternalServerError("e.what()")
    [] end[1] = "hello"   -> HelloJson(end[2])
    [] end[1] = "build"   -> Build(end[2], end[3], end[4])

(* handle_request without a handler: the target is no URL, or there is no  *)
(* route of its path and method.                                           *)
Reject(s, r) ==
  /\ Fresh(s, r)
  /\ LET req == asked[s]
     IN  \/ /\ req.path = "invalid"
            /\ answer' = [answer EXCEPT ![s] = InternalServerError("e.what()")]
         \/ /\ req.path # "invalid" /\ Matching(r, req) = {}
            /\ answer' = [answer EXCEPT ![s] = BadRequest("404 Bad Request")]
  /\ UNCHANGED <<tableVars, asked, route, given, fate>>

(* HttpRouterCoro::handle_request: a handler is found, and is co_awaited   *)
(* while the coroutine holds a reference to its route.                     *)
CallHandler(s) ==
  /\ Fresh(s, "coro")
  /\ Matching("coro", asked[s]) # {}
  /\ route' = [route EXCEPT ![s] = RouteHandler("coro", asked[s])]
  /\ given' = [given EXCEPT ![s] = DecodeJson(asked[s].body)]
  /\ UNCHANGED <<tableVars, asked, fate, answer>>

HandlerEnds(s) ==
  /\ asked[s].router = "coro"
  /\ route[s] # NoRoute
  /\ answer[s] = None
  /\ \E end \in Ends :
       /\ fate' = [fate EXCEPT ![s] = end]
       /\ answer' = [answer EXCEPT ![s] = Returned(end)]
  /\ UNCHANGED <<tableVars, asked, route, given>>

(* HttpRouter::handle_request: the handler is a function.                  *)
HandleRequest(s) ==
  /\ Fresh(s, "async")
  /\ Matching("async", asked[s]) # {}
  /\ route' = [route EXCEPT ![s] = RouteHandler("async", asked[s])]
  /\ given' = [given EXCEPT ![s] = DecodeJson(asked[s].body)]
  /\ \E end \in Ends :
       /\ fate' = [fate EXCEPT ![s] = end]
       /\ answer' = [answer EXCEPT ![s] = Returned(end)]
  /\ UNCHANGED <<tableVars, asked>>

(* WebsocketRouter::handle_request: nullptr if there is no route.          *)
RejectMessage(s) ==
  /\ Fresh(s, "websocket")
  /\ asked[s].path \notin DOMAIN ws_routes
  /\ answer' = [answer EXCEPT ![s] = Nullptr]
  /\ UNCHANGED <<tableVars, asked, route, given, fate>>

CallWsHandler(s) ==
  /\ Fresh(s, "websocket")
  /\ asked[s].path \in DOMAIN ws_routes
  /\ route' = [route EXCEPT ![s] = ws_routes[asked[s].path]]
  /\ given' = [given EXCEPT ![s] = FromMessage(asked[s].body)]
  /\ UNCHANGED <<tableVars, asked, fate, answer>>

(* The handler is the application's echo, or another that has no reply.    *)
WsHandlerEnds(s) ==
  /\ asked[s].router = "websocket"
  /\ route[s] # NoRoute
  /\ answer[s] = None
  /\ \E end \in {WsHelloJson(given[s]), Nullptr, Throws} :
       /\ fate' = [fate EXCEPT ![s] = end]
       /\ answer' = [answer EXCEPT ![s] = IF end = Throws THEN Nullptr ELSE end]
  /\ UNCHANGED <<tableVars, asked, route, given>>

-----------------------------------------------------------------------------
Application ==
  \/ \E r \in HttpRouters, m \in Methods, p \in Paths : AddRoute(r, m, p)
  \/ \E p \in Paths : AddWsRoute(p)
  \/ Run

Session(s) ==
  \/ Ask(s)
  \/ \E r \in HttpRouters : Reject(s, r)
  \/ CallHandler(s) \/ HandlerEnds(s) \/ HandleRequest(s)
  \/ RejectMessage(s) \/ CallWsHandler(s) \/ WsHandlerEnds(s)

Next == Application \/ \E s \in Sessions : Session(s)

Spec == Init /\ [][Next]_vars

-----------------------------------------------------------------------------
(***************************************************************************)
(* Properties.                                                             *)
(***************************************************************************)

(* The routes that are meant by what the session asks, by the calls of     *)
(* add_route that made them.                                               *)
Meant(s) ==
  {i \in DOMAIN added :
     /\ added[i].router = asked[s].router
     /\ added[i].path = asked[s].path
     /\ added[i].router \in HttpRouters => added[i].method = asked[s].method}

(* Of the routes the application has added for a path and a method the     *)
(* first one answers, in all three routers, though one keeps a map without *)
(* order and two a vector; and a request with such a route always comes to *)
(* its handler (http_router_coro.cpp:41, http_router.cpp:41,               *)
(* websocket_router.h:21).                                                 *)
FirstRouteAnswers ==
  \A s \in Sessions :
    /\ route[s] # NoRoute => Meant(s) # {} /\ route[s] = added[Min(Meant(s))]
    /\ answer[s] # None /\ Meant(s) # {} => route[s] # NoRoute

(* Whatever a handler does, an HTTP session gets a response.  A list of    *)
(* users is the database's, whole, or it is an error; an error has the     *)
(* body "null", whatever text it was made with; 500 has one of the three   *)
(* causes the code has for it; an unknown route is 400 and nothing else    *)
(* (http_router_coro.cpp:9-38, http_response.h:42-52,                      *)
(* response_traits.h:12-20, hello_route.cpp:34-40).                        *)
Unreadable(end) ==
  \/ end[1] = "hello" /\ "invalid" \in ToSet(end[2])
  \/ end[1] = "build" /\ end[3] = "json" /\ end[4] = WithMessage("invalid")

StatusTells ==
  \A s \in Sessions :
    asked[s].router \in HttpRouters /\ answer[s] # None =>
      /\ answer[s][1] = "response"
      /\ answer[s][2] >= 400 => answer[s][3] = Null
      /\ answer[s][2] = 500
           <=> asked[s].path = "invalid" \/ fate[s] \in {Nullptr, Throws} \/ Unreadable(fate[s])
      /\ fate[s][1] = "hello" /\ answer[s][2] = 200 => answer[s][3] = WithUsers(fate[s][2])
      /\ Meant(s) = {} /\ asked[s].path # "invalid" => answer[s][2] = 400

(* A websocket session gets the echo of the message it has read, or        *)
(* nothing; and nothing for certain if the message is no JSON object with  *)
(* a text, or if no route was added for the path of the handshake          *)
(* (websocket_router.cpp:15-32, hello_route.cpp:43-51).                    *)
EchoMatches ==
  \A s \in Sessions :
    asked[s].router = "websocket" /\ answer[s] \notin {None, Nullptr} =>
      /\ asked[s].body = WithMessage("valid")
      /\ answer[s] = WsHelloJson(asked[s].body)
      /\ Meant(s) # {}

=============================================================================
