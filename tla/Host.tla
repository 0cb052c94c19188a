-------------------------------- MODULE Host --------------------------------
(***************************************************************************)
(* The parts of the host that a session uses, side by side: the sockets of *)
(* the protocols, the Windows engine, the physical resolver, a lookup with *)
(* its name servers, the protocol devices, the saved source and the        *)
(* publisher of states.  The parts share no state, so one of them moves in *)
(* a behaviour and the others stay as they begin; all failures and         *)
(* interleavings happen within a part.                                     *)
(***************************************************************************)
EXTENDS SocketScopes, WindowsEngine, PhysicalDns, CapturedDns, OutlineDevice, XrayDevice,
        TrustTunnelDevice, EndpointForwarder, SourceStore, StatePublisher

CONSTANT Parts \* the parts that are checked

VARIABLE part \* the part that moves

devices == <<outlineVars, xrayVars, ttVars, fwdVars>>
resolvers == <<dnsVars, lookupVars>>
session == <<storeVars, publisherVars>>
hostVars == <<part, scopeVars, engineVars, resolvers, devices, session>>

\* Where a part may begin in several ways, one of them stands for it while it does not move.
\* Networks are alike, so that it does not matter which one is there first.
Init ==
    /\ part \in Parts
    /\ ScopesInit /\ (part # "scopes" => platform = "mobile" /\ bound)
    /\ EngineInit
    /\ DnsInit /\ network = (CHOOSE n \in Networks : TRUE) /\ (part # "dns" => dnsPlatform = "mobile")
    /\ CapturedDnsInit
    /\ OutlineInit /\ XrayInit /\ TTInit /\ ForwarderInit
    /\ StoreInit /\ (part # "store" => mobile)
    /\ PublisherInit /\ (part # "publisher" => ~shell)

\* A step of one part.
InScopes(A) == part = "scopes" /\ A /\ UNCHANGED <<part, engineVars, resolvers, devices, session>>
InEngine(A) == part = "engine" /\ A /\ UNCHANGED <<part, scopeVars, resolvers, devices, session>>
InDns(A) == part = "dns" /\ A /\ UNCHANGED <<part, scopeVars, engineVars, lookupVars, devices, session>>
InLookup(A) == part = "lookup" /\ A /\ UNCHANGED <<part, scopeVars, engineVars, dnsVars, devices, session>>
InSession(name, A, other) ==
    part = name /\ A /\ UNCHANGED other /\ UNCHANGED <<part, scopeVars, engineVars, resolvers, devices>>
InStore(A) == InSession("store", A, publisherVars)
InPublisher(A) == InSession("publisher", A, storeVars)
InDevice(name, A, others) ==
    part = name /\ A /\ UNCHANGED others /\ UNCHANGED <<part, scopeVars, engineVars, resolvers, session>>
InOutline(A) == InDevice("outline", A, <<xrayVars, ttVars, fwdVars>>)
InXray(A) == InDevice("xray", A, <<outlineVars, ttVars, fwdVars>>)
InTrustTunnel(A) == InDevice("trusttunnel", A, <<outlineVars, xrayVars, fwdVars>>)
InForwarder(A) == InDevice("forwarder", A, <<outlineVars, xrayVars, ttVars>>)

Next ==
    \/ InScopes(ScopesNext) \/ InEngine(EngineNext) \/ InDns(DnsNext) \/ InLookup(CapturedDnsNext)
    \/ InStore(StoreNext) \/ InPublisher(PublisherNext)
    \/ InOutline(OutlineNext) \/ InXray(XrayNext)
    \/ InTrustTunnel(TTNext) \/ InForwarder(ForwarderNext)

\* What is owed to a part is owed to it where it is the one that moves.
In(name, A) == part = name /\ A

\* In the part that moves goroutines run, calls of the system end, by their timeouts if not
\* before, and a close that failed is repeated.  Nothing is expected of peers, of an
\* application or of a shell but that its callback returns, no lookup relies on the end of
\* its caller's context, and the context of WaitReady may last.
Fairness ==
    /\ WF_scopeVars(In("scopes", ScopesFair))
    /\ WF_engineVars(In("engine", EngineFair)) /\ WF_engineVars(In("engine", InBackground))
    /\ WF_dnsVars(In("dns", DnsFair)) /\ WF_lookupVars(In("lookup", LookupStep))
    /\ WF_outlineVars(In("outline", OutlineFair)) /\ WF_outlineVars(In("outline", ServeEnds))
    /\ \A f \in Flows :
          /\ WF_outlineVars(In("outline", Serving(f))) /\ WF_outlineVars(In("outline", OutlineDialing(f)))
          /\ WF_outlineVars(In("outline", Abort(f))) /\ WF_outlineVars(In("outline", AssociationCanceled(f)))
          /\ WF_outlineVars(In("outline", Unblocked(f))) /\ WF_outlineVars(In("outline", Replying(f)))
    /\ \A d \in Devices : WF_xrayVars(In("xray", XrayFair(d)))
    /\ \A x \in XrayDials : WF_xrayVars(In("xray", XrayDialing(x)))
    /\ \A d \in TTDevices :
          /\ WF_ttVars(In("trusttunnel", TTOpening(d))) /\ WF_ttVars(In("trusttunnel", CheckReady(d)))
          /\ WF_ttVars(In("trusttunnel", TTFair(d)))
    /\ WF_fwdVars(In("forwarder", ForwarderFair)) /\ WF_fwdVars(In("forwarder", Streaming))
    /\ WF_fwdVars(In("forwarder", Receiving)) /\ WF_fwdVars(In("forwarder", Accepting))
    /\ WF_fwdVars(In("forwarder", Interrupted("up"))) /\ WF_fwdVars(In("forwarder", Interrupted("down")))
    /\ WF_fwdVars(In("forwarder", NoReturn))
    /\ WF_publisherVars(In("publisher", Drain \/ Again)) /\ WF_publisherVars(In("publisher", Take \/ Delivered))

Spec == Init /\ [][Next]_hostVars /\ Fairness

-----------------------------------------------------------------------------
\* The network guard of Windows lets pass exactly what it should: no destination of an
\* attempt whose scope is closed (Authorize, Retire), and nothing past a configured adapter
\* (startPlatformEngine, stopPlatformEngine), whichever calls fail or come late.
GuardExact == RetiredForGood /\ ConfiguredIsGuarded

\* Close of an Outline device and of an endpoint forwarder: when it returns without an
\* error no worker runs and no socket is open, whatever was accepted or dialed meanwhile.
ClosedIsDrained == OutlineDrained /\ ForwarderDrained

\* Endpoint names: an answer is one of the current network and its current resolver
\* (ResolveAddresses), and a lookup fails only when no server of the network makes it
\* succeed and leaves no query behind (resolveCapturedDNSServers).
AnswersExact == AnswersAreCurrent /\ FailoverUsed /\ LookupDrained

\* The resolver keeps up: the bindings and the guard of Windows come to be those of the
\* network there is (the capture), and every lookup returns (resolveCapturedDNSServers).
ResolverFollows == NetworkFollowed /\ LookupReturns

\* The process-wide hooks of Xray and of the native TrustTunnel client have one owner at a
\* time, which gives them back only when nothing of it is left.
HooksOwned == DialerOwned /\ OneNativeOwner

\* Retries release: once calls of the system work, repeated closes of scopes, Stops of the
\* Windows engine and closes of the protocol devices end: nothing they wait for, not even
\* each other, holds them up for good, whatever earlier failures have left behind.
CallsWork ==
    \/ part = "scopes" /\ ~scopeFailures
    \/ part = "engine" /\ ~engineFailures
    \/ part = "outline" /\ ~outline.failures
    \/ part = "xray" /\ ~xrayFailures
    \/ part = "trusttunnel" /\ ~ttFailures
    \/ part = "forwarder" /\ ~fwdFailures
AtRest ==
    \/ part = "scopes" /\ ScopesAtRest
    \/ part = "engine" /\ EngineAtRest
    \/ part = "outline" /\ OutlineAtRest
    \/ part = "xray" /\ XrayAtRest
    \/ part = "trusttunnel" /\ TTAtRest
    \/ part = "forwarder" /\ ForwarderAtRest
ClosesEnd == CallsWork ~> AtRest
=============================================================================
