---------------------------- MODULE MCDefinition ----------------------------
(* Instances of Definition for TLC: the definitions and updates that are       *)
(* tried, at the limits of each validator.                                     *)
EXTENDS Definition, TLC

CONSTANTS a1, a2, h1, h2, c1, c2, k1, k2, v1, v2

\* Mount paths are sequences of segments.
Data == <<"data">>
Nested == <<"data", "db">>

Mounts == {[name |-> v, path |-> p] : v \in {v1, v2}, p \in {Data, Nested, <<"b">>, <<"proc", "x">>}}

Plain(host, n) ==
  [domain |-> host, replicas |-> n, env |-> (k1 :> 1),
   volumes |-> {[name |-> v1, path |-> Data]}]

\* Definitions CreateApp is called with: two that are stored, and one for each
\* limit, of which kadrand refuses all but the last.
SomeApps ==
  {Plain(h1, 1), Plain(h2, MaxReplicas),
   [Plain(h1, 1) EXCEPT !.replicas = MaxReplicas + 1],
   [Plain(h1, 1) EXCEPT !.volumes = {[name |-> v1, path |-> Data], [name |-> v1, path |-> <<"b">>]}],
   [Plain(h1, 1) EXCEPT !.volumes = {[name |-> v1, path |-> <<"proc", "x">>]}],
   [Plain(h1, 1) EXCEPT !.env = (k1 :> MaxEnvBytes)],
   [Plain(h1, 1) EXCEPT !.env = (k1 :> 1 @@ k2 :> MaxEnvBytes - 2)]}

Untouched ==
  [domain |-> Keep, replicas |-> Keep, env |-> <<>>, envRemove |-> {},
   volumes |-> {}, volumeRemove |-> {}]

SomeChanges ==
  {[Untouched EXCEPT !.domain = h1], [Untouched EXCEPT !.domain = NoHost],
   [Untouched EXCEPT !.replicas = 1], [Untouched EXCEPT !.replicas = MaxReplicas],
   [Untouched EXCEPT !.env = (k2 :> 1)],
   [Untouched EXCEPT !.env = (k2 :> MaxEnvBytes - 2), !.envRemove = {k1}],
   [Untouched EXCEPT !.volumes = {[name |-> v2, path |-> Nested]}],
   [Untouched EXCEPT !.volumes = {[name |-> v2, path |-> Nested]}, !.volumeRemove = {v1}],
   [Untouched EXCEPT !.volumes = {[name |-> v1, path |-> Nested]}, !.volumeRemove = {v1}]}

Callers == Permutations({c1, c2})
=============================================================================
