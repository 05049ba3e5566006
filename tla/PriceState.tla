----------------------------- MODULE PriceState -----------------------------
(***************************************************************************)
(* What one page keeps of the price stream - the token in the auth store,  *)
(* the shared client, its sockets with the gateway's side of each, and the *)
(* components that show prices - and what should hold of it.  PriceStream  *)
(* says how it changes.                                                    *)
(***************************************************************************)
EXTENDS Naturals

CONSTANTS Components, \* mounted users of the hook
          Symbols,    \* normalized symbol keys
          MaxTokens,  \* bound: access tokens ever issued
          MaxSockets  \* bound: sockets ever opened

VARIABLES
    token,      \* auth store: accessToken, 0 for null
    issued,     \* tokens issued so far
    expired,    \* tokens past their expiry
    client,     \* PriceStreamClient
    sock,       \* the sockets: state, messages both ways, gateway's side
    comp,       \* the components
    odd         \* history: which of the disturbances named below occurred

Sockets == 1..MaxSockets

\* relogin: setAuthToken(null) met a live socket;  orphan: a socket was
\* replaced before its onclose;  stolen: a component unsubscribed a symbol
\* that another one still shows;  halfway: a refresh stored its token, and the
\* /me after it failed.
Disturbances == {"relogin", "orphan", "stolen", "halfway"}

-----------------------------------------------------------------------------
(* Properties *)

\* The type invariant.
StreamTypes ==
    /\ token \in 0..issued /\ issued \in 0..MaxTokens /\ expired \subseteq 1..issued
    /\ client.ws \in 0..client.made /\ client.made \in 0..MaxSockets
    /\ client.pending \subseteq Symbols /\ client.subscribed \subseteq Symbols
    /\ client.fresh \in Nat /\ client.retry \in Nat
    /\ \A i \in Sockets : /\ sock[i].st \in {"none", "connecting", "open", "closing", "closed"}
                          /\ sock[i].authed \in 0..issued /\ sock[i].subs \subseteq Symbols
    /\ \A k \in Components : comp[k].subbed \subseteq Symbols /\ comp[k].tok \in 0..issued
    /\ odd \subseteq Disturbances

\* On an authenticated connection with nothing on its way the gateway sends
\* every symbol the components show: the client never takes a symbol for
\* subscribed that the current connection does not know.
TicksFlow ==
    LET i == client.ws IN
    (odd = {} /\ i # 0 /\ client.authenticated /\ sock[i].st = "open" /\ sock[i].out = <<>>)
        => \A k \in Components : comp[k].subbed \subseteq sock[i].subs

\* One page holds one connection.
OneSocket ==
    ("orphan" \notin odd) => \A i \in Sockets :
        sock[i].st \in {"connecting", "open", "closing"} => i = client.ws

\* The types, and one connection: what the client and the components refer to
\* exists, through drops, refused tokens and reconnections.
SocketsSound == StreamTypes /\ OneSocket
=============================================================================
