------------------------------- MODULE MCServices -------------------------------
(***************************************************************************)
(* One instance of each service module.  They share no variable: a behaviour *)
(* runs one of them, the others stay in their initial state.                 *)
(***************************************************************************)
EXTENDS OutboundQueue, NativeStream, OfficialDelivery, QqGateway, OfficialIngress,
        ToolCalls, HistoryCompaction, ExtractionQueue, SessionStore

CONSTANTS
    a, b,         \* resources of tool calls
    c1, c2, u     \* sessions and a user of the extraction queue

VARIABLE which   \* the service that runs

MCToolEffects ==
    [kind : {"parallel"}, reads : {{}, {{a}}}, writes : {{}, {{a}}, {{b}}, {{a, b}}}]
    \cup {[kind |-> "barrier", reads |-> {}, writes |-> {}]}

MCQueueKeys == {<<c1, u>>, <<c2, u>>}

allVars == <<outboundVars, nativeVars, officialVars, gatewayVars, ingressVars, toolVars,
             historyVars, extractionVars, storeVars, which>>

ServicesInit ==
    /\ which \in {"outbound", "native", "official", "gateway", "ingress", "tools",
                  "history", "extraction", "store"}
    /\ OutboundInit /\ NativeInit /\ OfficialInit /\ GatewayInit /\ IngressInit
    /\ ToolCallsInit /\ HistoryInit /\ ExtractionInit /\ StoreInit

ServicesNext ==
    /\ which' = which
    /\ \/ /\ which = "outbound" /\ OutboundNext
          /\ UNCHANGED <<nativeVars, officialVars, gatewayVars, ingressVars, toolVars,
                         historyVars, extractionVars, storeVars>>
       \/ /\ which = "native" /\ NativeNext
          /\ UNCHANGED <<outboundVars, officialVars, gatewayVars, ingressVars, toolVars,
                         historyVars, extractionVars, storeVars>>
       \/ /\ which = "official" /\ OfficialNext
          /\ UNCHANGED <<outboundVars, nativeVars, gatewayVars, ingressVars, toolVars,
                         historyVars, extractionVars, storeVars>>
       \/ /\ which = "gateway" /\ GatewayNext
          /\ UNCHANGED <<outboundVars, nativeVars, officialVars, ingressVars, toolVars,
                         historyVars, extractionVars, storeVars>>
       \/ /\ which = "ingress" /\ IngressNext
          /\ UNCHANGED <<outboundVars, nativeVars, officialVars, gatewayVars, toolVars,
                         historyVars, extractionVars, storeVars>>
       \/ /\ which = "tools" /\ ToolCallsNext
          /\ UNCHANGED <<outboundVars, nativeVars, officialVars, gatewayVars, ingressVars,
                         historyVars, extractionVars, storeVars>>
       \/ /\ which = "history" /\ HistoryNext
          /\ UNCHANGED <<outboundVars, nativeVars, officialVars, gatewayVars, ingressVars,
                         toolVars, extractionVars, storeVars>>
       \/ /\ which = "extraction" /\ ExtractionNext
          /\ UNCHANGED <<outboundVars, nativeVars, officialVars, gatewayVars, ingressVars,
                         toolVars, historyVars, storeVars>>
       \/ /\ which = "store" /\ StoreNext
          /\ UNCHANGED <<outboundVars, nativeVars, officialVars, gatewayVars, ingressVars,
                         toolVars, historyVars, extractionVars>>

\* No fair step of a service is enabled in its initial state.
ServicesFairness ==
    /\ OutboundFairness /\ NativeFairness /\ GatewayFairness /\ ToolCallsFairness
    /\ ExtractionFairness

ServicesSpec == ServicesInit /\ [][ServicesNext]_allVars /\ ServicesFairness

\* Every variable of every service has its type.
ServicesTypeOK ==
    /\ OutboundTypeOK /\ NativeTypeOK /\ OfficialTypeOK /\ GatewayTypeOK /\ IngressTypeOK
    /\ ToolCallsTypeOK /\ HistoryTypeOK /\ ExtractionTypeOK /\ StoreTypeOK
=============================================================================
