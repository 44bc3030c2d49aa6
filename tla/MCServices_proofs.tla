---------------------------- MODULE MCServices_proofs ----------------------------
(***************************************************************************)
(* What the run of the services checks is what the theorems are about: each   *)
(* behaviour of the composition is one of every service, so what is proved of  *)
(* a service alone holds of it among the others.                             *)
(***************************************************************************)
EXTENDS MCServices, Delivery_proofs, Services_proofs, SessionData_proofs

\* A step of the composition is a step of each service, or changes nothing of it.
LEMMA ServicesStepAlone ==
    ASSUME [ServicesNext]_allVars
    PROVE  /\ [OutboundNext]_outboundVars /\ [NativeNext]_nativeVars
           /\ [OfficialNext]_officialVars /\ [GatewayNext]_gatewayVars
           /\ [IngressNext]_ingressVars /\ [ToolCallsNext]_toolVars
           /\ [HistoryNext]_historyVars /\ [ExtractionNext]_extractionVars
           /\ [StoreNext]_storeVars
  BY DEF ServicesNext, allVars

\* Nine services in one instance: none of them notices the others.
THEOREM ServicesWorkAlone ==
    ServicesSpec => /\ OutboundSpec /\ NativeSpec /\ OfficialSpec /\ GatewaySpec
                    /\ IngressSpec /\ ToolCallsSpec /\ HistorySpec /\ ExtractionSpec
                    /\ StoreSpec
  <1>1. ServicesInit =>
           /\ OutboundInit /\ NativeInit /\ OfficialInit /\ GatewayInit /\ IngressInit
           /\ ToolCallsInit /\ HistoryInit /\ ExtractionInit /\ StoreInit
    BY DEF ServicesInit
  <1>2. [ServicesNext]_allVars =>
           /\ [OutboundNext]_outboundVars /\ [NativeNext]_nativeVars
           /\ [OfficialNext]_officialVars /\ [GatewayNext]_gatewayVars
           /\ [IngressNext]_ingressVars /\ [ToolCallsNext]_toolVars
           /\ [HistoryNext]_historyVars /\ [ExtractionNext]_extractionVars
           /\ [StoreNext]_storeVars
    BY ServicesStepAlone
  <1>3. ServicesFairness => ExtractionFairness
    BY DEF ServicesFairness
  <1>4. QED
    BY <1>1, <1>2, <1>3, PTL
       DEF ServicesSpec, OutboundSpec, NativeSpec, OfficialSpec, GatewaySpec, IngressSpec,
           ToolCallsSpec, HistorySpec, ExtractionSpec, StoreSpec

-----------------------------------------------------------------------------
(* The types that are parts of an invariant.                                 *)

LEMMA ChannelTypes == OfficialSpec => []OfficialTypeOK
  <1> DEFINE Inv == /\ PermitInv /\ ShownInv /\ StreamInv
                    /\ expired \in BOOLEAN /\ cancelled \in BOOLEAN
  <1>1. OfficialInit => Inv
    <2>1. OfficialInit => ShownInv
      BY DEF OfficialInit, ShownInv, NothingIsShownTwice
    <2>2. OfficialInit => expired \in BOOLEAN /\ cancelled \in BOOLEAN
      BY DEF OfficialInit
    <2>3. OfficialInit => PermitInv
      BY PermitInitInv
    <2>4. OfficialInit => StreamInv
      BY StreamStarts DEF StreamInv
    <2>5. QED
      BY <2>1, <2>2, <2>3, <2>4
  <1>2. Inv /\ [OfficialNext]_officialVars => Inv'
    <2> SUFFICES ASSUME Inv, [OfficialNext]_officialVars PROVE Inv'
      OBVIOUS
    <2>1. expired' \in BOOLEAN /\ cancelled' \in BOOLEAN
      BY DEF OfficialNext, officialVars, PermitExpires, TurnCancelled, SendText, SendMedia,
             UploadEnds, UploadFails, SendAnswered, AppendText, FlushTimer, Flush,
             FrameAnswered, CloseStream, CloseRuns, PlainAnswered, FinalAnswered
    <2>2. QED
      BY <2>1, PermitNextInv, ShownNextInv, StreamStep
  <1>3. Inv => OfficialTypeOK
    <2>1. StreamInv => stream.interrupted \in BOOLEAN
      BY DEF StreamInv, Streaming, Stream
    <2>2. QED
      BY <2>1 DEF PermitInv, ShownInv, StreamInv, Streaming, OfficialTypeOK
  <1> HIDE DEF Inv
  <1>4. QED
    BY <1>1, <1>2, <1>3, PTL DEF OfficialSpec

LEMMA OtherTypes ==
    /\ GatewaySpec => []GatewayTypeOK
    /\ IngressSpec => []IngressTypeOK
    /\ ToolCallsSpec => []ToolCallsTypeOK
    /\ StoreSpec => []StoreTypeOK
  <1>1. GatewaySpec => []GatewayTypeOK
    <2>1. GatewayInv => GatewayTypeOK
      BY DEF GatewayInv
    <2>2. QED
      BY <2>1, GatewayInitInv, GatewayNextInv, PTL DEF GatewaySpec
  <1>2. IngressSpec => []IngressTypeOK
    <2>1. IngressInv => IngressTypeOK
      BY DEF IngressInv
    <2>2. QED
      BY <2>1, IngressInitInv, IngressNextInv, PTL DEF IngressSpec
  <1>3. ToolCallsSpec => []ToolCallsTypeOK
    <2>1. CallsInv => ToolCallsTypeOK
      BY DEF CallsInv
    <2>2. QED
      BY <2>1, CallsAreTracked, PTL
  <1>4. StoreSpec => []StoreTypeOK
    <2>1. StoreInv => StoreTypeOK
      BY DEF StoreInv
    <2>2. QED
      BY <2>1, StoreInitInv, StoreNextInv, PTL DEF StoreSpec
  <1>5. QED
    BY <1>1, <1>2, <1>3, <1>4

\* Every value a service keeps is one its program can hold, in every behaviour of
\* the composition and for every value of its constants.
THEOREM ServicesTypes == ServicesSpec => []ServicesTypeOK
  <1>1. /\ OutboundTypeOK /\ NativeTypeOK /\ OfficialTypeOK /\ GatewayTypeOK
        /\ IngressTypeOK /\ ToolCallsTypeOK /\ HistoryTypeOK /\ ExtractionTypeOK
        /\ StoreTypeOK
        => ServicesTypeOK
    BY DEF ServicesTypeOK
  <1>2. QED
    BY <1>1, ServicesWorkAlone, OutboundTypes, NativeTypes, ChannelTypes, OtherTypes,
       HistoryTypes, ExtractionTypes, PTL
=============================================================================
