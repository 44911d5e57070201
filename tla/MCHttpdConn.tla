---------------------------- MODULE MCHttpdConn -----------------------------
(* Instances of HttpdConn for TLC: every plan of up to two requests with bodies
   that are absent, shorter than the buffer of two tokens, as long, longer, and
   (alone) twice as long, of clients that wait and of clients that do not. *)
EXTENDS HttpdConn

WithBodies(bodies) == {r \in [body : bodies, cgi : {"simple", "stream", "eat"},
                             chunked : BOOLEAN, lastEmpty : BOOLEAN] :
                        r.lastEmpty => r.cgi = "stream"}

Alone == {<<r>> : r \in WithBodies({0, 1, 2, 3, 4})}
Pairs == {<<r, s>> : r \in WithBodies({0, 2, 3}), s \in WithBodies({0, 1, 3})}

AllPlans == [reqs : Alone \union Pairs, waits : BOOLEAN]
=============================================================================
