------------------------- MODULE MCWebtermSession ---------------------------
(* Small instances of WebtermSession for TLC. *)
EXTENDS WebtermSession, TLC

CONSTANTS host, app, stream, eurusd, gbpusd

\* A host that polls the account, trades and asks again for quiet prices, next to
\* a stream of another symbol.
OneHost == host :> Kinds
HostAsks == host :> {gbpusd}

\* Two tasks take snapshots.
TwoSnapshotters == (host :> {"snapshot"}) @@ (app :> {"snapshot"})
NothingAsked == (host :> {}) @@ (app :> {})

OneStream == stream :> {eurusd}
Pauses == <<1, 2>>

\* The request for the list fails, or it has all symbols.
NoneOrAll == {{}, Symbols}
AllListed == {Symbols}

=============================================================================
