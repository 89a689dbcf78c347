----------------------- MODULE MCProviderConfiguration -----------------------
(* A small instance of ProviderConfiguration. *)
EXTENDS ProviderConfiguration, TLC

CONSTANTS p1, p2, r1, r2, own, shop, site

Settling == {"confirm", "release"}

Provider(name, kind, driver, url, timeout, caps) ==
  [name |-> name, kind |-> kind, driver |-> driver, url |-> url,
   timeout |-> timeout, caps |-> caps, enabled |-> FALSE]

\* The last three are refused.
SomeProviders ==
  {Provider(own, "internal", "internal", NoUrl, 1, {"hold"} \cup Settling),
   Provider(shop, "external", "http", site, 1, Settling),
   Provider(shop, "external", "http", site, 0, Settling),
   Provider(shop, "external", "http", NoUrl, 1, Settling),
   Provider(own, "internal", "internal", NoUrl, 1, {"hold"})}

\* A base URL is refused for an internal provider, {"hold"} and no timeout for both.
SomeUpdates ==
  {"caps" :> ({"hold"} \cup Settling), "caps" :> {}, "caps" :> {"hold"},
   "url" :> site, "name" :> own, "timeout" :> 0}

SomeCredentials ==
  {[auth |-> "none", secret |-> FALSE], [auth |-> "bearer", secret |-> TRUE],
   [auth |-> "bearer", secret |-> FALSE]}

Interchangeable == Permutations({p1, p2}) \cup Permutations({r1, r2})
=============================================================================
