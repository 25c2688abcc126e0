---------------------------- MODULE BindingTypes ----------------------------
(* The calls of register_types of modulegen__gcc_LP64.py, in the order in which   *)
(* it makes them, with the types they name: the data on which Bindings works.     *)
(* A name stands without ns3:: and std::, a template of one of the callbacks as   *)
(* Callback(result,arguments) with a Ptr<T> as T, a SimpleRefCount of T as        *)
(* RefCount<T>, a DefaultDeleter of T as Deleter<T>.                              *)
EXTENDS Naturals, Sequences

(* What one call needs and does: it looks up the names in looks (the outer class, *)
(* the parents) in the module, and registers name; counting says that it passes   *)
(* a reference counting policy, own that it does not import the class from        *)
(* another module, alias which type a name is an alias of. A definition named     *)
(* after another one with Bug behind it is a mistake the code could have.         *)
Registers(n) == [name |-> n, looks |-> {}, parents |-> {}, counting |-> FALSE,
                 own |-> FALSE, alias |-> n]

Each(ns, Call(_)) == [i \in DOMAIN ns |-> Call(ns[i])]

Plain(ns) == Each(ns, Registers)
Inner(outer, ns) ==
  LET Call(n) == [Registers(n) EXCEPT !.looks = {outer}] IN Each(ns, Call)
Derived(ps, ns) ==
  LET Call(n) == [Registers(n) EXCEPT !.looks = ps, !.parents = ps] IN Each(ns, Call)
CountingBug(ps, ns) == Derived(ps, ns)
Counting(ps, ns) ==
  LET Call(n) == [Derived(ps, <<n>>)[1] EXCEPT !.counting = TRUE] IN Each(ns, Call)
Own(ps, ns) ==
  LET Call(n) == [Derived(ps, <<n>>)[1] EXCEPT !.own = TRUE] IN Each(ns, Call)
Alias(target, ns) ==
  LET Call(n) == [Registers(n) EXCEPT !.alias = target] IN Each(ns, Call)
(* implicitly_converts_to registers nothing new, and looks both classes up. *)
Converting(to, ns) ==
  LET Call(n) == [Registers(n) EXCEPT !.looks = {n, to}] IN Each(ns, Call)

\* From PbbAddressLength to PacketSocketAddress.
HelperTypes ==
  Plain(<<"PbbAddressLength", "ethernet_header_t", "LogLevel", "Address">>)
  \o Inner("Address", <<"Address::MaxSize_e">>)
  \o Plain(<<"ApplicationContainer", "AsciiFile", "AsciiTraceHelper",
         "AsciiTraceHelperForDevice", "AttributeConstructionList">>)
  \o Inner("AttributeConstructionList", <<"AttributeConstructionList::Item">>)
  \o Plain(<<"Buffer">>)
  \o Inner("Buffer", <<"Buffer::Iterator">>)
  \o Own({}, <<"BulkSendHelper">>)
  \o Plain(<<"ByteTagIterator">>)
  \o Inner("ByteTagIterator", <<"ByteTagIterator::Item">>)
  \o Plain(<<"ByteTagList">>)
  \o Inner("ByteTagList", <<"ByteTagList::Iterator">>)
  \o Inner("ByteTagList::Iterator", <<"ByteTagList::Iterator::Item">>)
  \o Plain(<<"CallbackBase", "ChannelList", "DataOutputCallback", "DataRate",
         "Deleter<AttributeAccessor>", "Deleter<AttributeChecker>", "Deleter<AttributeValue>",
         "Deleter<CallbackImplBase>", "Deleter<EventImpl>", "Deleter<Hash::Implementation>",
         "Deleter<NetDeviceQueue>", "Deleter<NixVector>", "Deleter<OutputStreamWrapper>",
         "Deleter<Packet>", "Deleter<PbbAddressBlock>", "Deleter<PbbMessage>",
         "Deleter<PbbTlv>", "Deleter<QueueItem>", "Deleter<TraceSourceAccessor>",
         "DelayJitterEstimation", "EventId", "Hasher", "Inet6SocketAddress">>)
  \o Converting("Address", <<"Inet6SocketAddress">>)
  \o Plain(<<"InetSocketAddress">>)
  \o Converting("Address", <<"InetSocketAddress">>)
  \o Plain(<<"Ipv4Address">>)
  \o Converting("Address", <<"Ipv4Address">>)
  \o Plain(<<"Ipv4Mask", "Ipv6Address">>)
  \o Converting("Address", <<"Ipv6Address">>)
  \o Plain(<<"Ipv6Prefix", "LogComponent", "Mac16Address">>)
  \o Converting("Address", <<"Mac16Address">>)
  \o Plain(<<"Mac48Address">>)
  \o Converting("Address", <<"Mac48Address">>)
  \o Plain(<<"Mac64Address">>)
  \o Converting("Address", <<"Mac64Address">>)
  \o Plain(<<"NetDeviceContainer", "NodeContainer", "NodeList", "NonCopyable", "ObjectBase",
         "ObjectDeleter", "ObjectFactory">>)
  \o Own({}, <<"OnOffHelper", "PacketLossCounter">>)
  \o Plain(<<"PacketMetadata">>)
  \o Inner("PacketMetadata", <<"PacketMetadata::Item">>)
  \o Inner("PacketMetadata::Item", <<"PacketMetadata::Item::ItemType">>)
  \o Inner("PacketMetadata", <<"PacketMetadata::ItemIterator">>)
  \o Own({}, <<"PacketSinkHelper">>)
  \o Plain(<<"PacketSocketAddress">>)
  \o Converting("Address", <<"PacketSocketAddress">>)

\* From PacketSocketHelper to RefCount<TraceSourceAccessor>.
HeaderTypes ==
  Plain(<<"PacketSocketHelper", "PacketTagIterator">>)
  \o Inner("PacketTagIterator", <<"PacketTagIterator::Item">>)
  \o Plain(<<"PacketTagList">>)
  \o Inner("PacketTagList", <<"PacketTagList::TagData">>)
  \o Plain(<<"ParameterLogger", "PbbAddressTlvBlock", "PbbTlvBlock", "PcapFile", "PcapHelper">>)
  \o Inner("PcapHelper", <<"PcapHelper::DataLinkType">>)
  \o Plain(<<"PcapHelperForDevice", "SimpleNetDeviceHelper">>)
  \o Counting({"ObjectBase"}, <<"RefCount<Object,ObjectBase>">>)
  \o Plain(<<"Simulator">>)
  \o Inner("Simulator", <<"Simulator::Anonymous">>)
  \o Plain(<<"StatisticalSummary", "SystemWallClockMs">>)
  \o Derived({"ObjectBase"}, <<"Tag">>)
  \o Plain(<<"TagBuffer", "TimeWithUnit", "TracedValue<uint>", "TypeId">>)
  \o Inner("TypeId", <<"TypeId::AttributeFlag", "TypeId::SupportLevel",
         "TypeId::AttributeInformation", "TypeId::TraceSourceInformation">>)
  \o Own({}, <<"UdpClientHelper", "UdpEchoClientHelper", "UdpEchoServerHelper",
         "UdpServerHelper", "UdpTraceClientHelper">>)
  \o Plain(<<"empty", "int64x64_t">>)
  \o Inner("int64x64_t", <<"int64x64_t::impl_type">>)
  \o Derived({"ObjectBase"}, <<"Chunk">>)
  \o Derived({"Tag"}, <<"DeviceNameTag", "FlowIdTag">>)
  \o Derived({"Chunk"}, <<"Header">>)
  \o Derived({"Header"}, <<"LlcSnapHeader">>)
  \o Derived({"RefCount<Object,ObjectBase>"}, <<"Object">>)
  \o Inner("Object", <<"Object::AggregateIterator">>)
  \o Derived({"Object"}, <<"PacketBurst">>)
  \o Derived({"Tag"}, <<"PacketSocketTag">>)
  \o Derived({"Object"}, <<"PcapFileWrapper", "QueueBase">>)
  \o Inner("QueueBase", <<"QueueBase::QueueMode">>)
  \o Derived({"Object"}, <<"QueueLimits">>)
  \o Derived({"Header"}, <<"RadiotapHeader">>)
  \o Inner("RadiotapHeader", <<"RadiotapHeader::FrameFlag", "RadiotapHeader::ChannelFlags",
         "RadiotapHeader::McsKnown", "RadiotapHeader::McsFlags", "RadiotapHeader::AmpduFlags",
         "RadiotapHeader::VhtKnown", "RadiotapHeader::VhtFlags">>)
  \o Derived({"Object"}, <<"RandomVariableStream">>)
  \o Own({"Header"}, <<"SeqTsHeader">>)
  \o Derived({"RandomVariableStream"}, <<"SequentialRandomVariable">>)
  \o Counting({"empty"}, <<"RefCount<AttributeAccessor>", "RefCount<AttributeChecker>",
         "RefCount<AttributeValue>", "RefCount<CallbackImplBase>", "RefCount<EventImpl>",
         "RefCount<Hash::Implementation>", "RefCount<NetDeviceQueue>", "RefCount<NixVector>",
         "RefCount<OutputStreamWrapper>", "RefCount<Packet>", "RefCount<PbbAddressBlock>",
         "RefCount<PbbMessage>">>)
  \o Counting({"Header"}, <<"RefCount<PbbPacket,Header>">>)
  \o Counting({"empty"}, <<"RefCount<PbbTlv>", "RefCount<QueueItem>",
         "RefCount<TraceSourceAccessor>">>)

\* From SllHeader to Mac64AddressValue.
RandomTypes ==
  Derived({"Header"}, <<"SllHeader">>)
  \o Inner("SllHeader", <<"SllHeader::PacketType">>)
  \o Derived({"Object"}, <<"Socket">>)
  \o Inner("Socket", <<"Socket::SocketErrno", "Socket::SocketType", "Socket::SocketPriority",
         "Socket::Ipv6MulticastFilterMode">>)
  \o Derived({"Object"}, <<"SocketFactory">>)
  \o Derived({"Tag"}, <<"SocketIpTosTag", "SocketIpTtlTag", "SocketIpv6HopLimitTag",
         "SocketIpv6TclassTag", "SocketPriorityTag", "SocketSetDontFragmentTag">>)
  \o Plain(<<"Time">>)
  \o Inner("Time", <<"Time::Unit">>)
  \o Converting("int64x64_t", <<"Time">>)
  \o Derived({"RefCount<TraceSourceAccessor>"}, <<"TraceSourceAccessor">>)
  \o Derived({"Chunk"}, <<"Trailer">>)
  \o Derived({"RandomVariableStream"}, <<"TriangularRandomVariable", "UniformRandomVariable",
         "WeibullRandomVariable", "ZetaRandomVariable", "ZipfRandomVariable">>)
  \o Derived({"Object"}, <<"Application">>)
  \o Derived({"RefCount<AttributeAccessor>"}, <<"AttributeAccessor">>)
  \o Derived({"RefCount<AttributeChecker>"}, <<"AttributeChecker">>)
  \o Derived({"RefCount<AttributeValue>"}, <<"AttributeValue">>)
  \o Derived({"AttributeChecker"}, <<"BooleanChecker">>)
  \o Derived({"AttributeValue"}, <<"BooleanValue">>)
  \o Own({"Application"}, <<"BulkSendApplication">>)
  \o Derived({"AttributeChecker"}, <<"CallbackChecker">>)
  \o Derived({"RefCount<CallbackImplBase>"}, <<"CallbackImplBase">>)
  \o Derived({"AttributeValue"}, <<"CallbackValue">>)
  \o Derived({"Object"}, <<"Channel">>)
  \o Derived({"RandomVariableStream"}, <<"ConstantRandomVariable">>)
  \o Derived({"Object"}, <<"DataCalculator", "DataCollectionObject", "DataOutputInterface">>)
  \o Derived({"AttributeChecker"}, <<"DataRateChecker">>)
  \o Derived({"AttributeValue"}, <<"DataRateValue">>)
  \o Derived({"RandomVariableStream"}, <<"DeterministicRandomVariable">>)
  \o Derived({"AttributeValue"}, <<"DoubleValue">>)
  \o Derived({"QueueLimits"}, <<"DynamicQueueLimits">>)
  \o Derived({"RandomVariableStream"}, <<"EmpiricalRandomVariable">>)
  \o Derived({"AttributeAccessor"}, <<"EmptyAttributeAccessor">>)
  \o Derived({"AttributeChecker"}, <<"EmptyAttributeChecker">>)
  \o Derived({"AttributeValue"}, <<"EmptyAttributeValue">>)
  \o Derived({"AttributeChecker"}, <<"EnumChecker">>)
  \o Derived({"AttributeValue"}, <<"EnumValue">>)
  \o Derived({"RandomVariableStream"}, <<"ErlangRandomVariable">>)
  \o Derived({"Object"}, <<"ErrorModel">>)
  \o Derived({"Header"}, <<"EthernetHeader">>)
  \o Derived({"Trailer"}, <<"EthernetTrailer">>)
  \o Derived({"RefCount<EventImpl>"}, <<"EventImpl">>)
  \o Derived({"RandomVariableStream"}, <<"ExponentialRandomVariable", "GammaRandomVariable">>)
  \o Derived({"AttributeValue"}, <<"IntegerValue">>)
  \o Derived({"AttributeChecker"}, <<"Ipv4AddressChecker">>)
  \o Derived({"AttributeValue"}, <<"Ipv4AddressValue">>)
  \o Derived({"AttributeChecker"}, <<"Ipv4MaskChecker">>)
  \o Derived({"AttributeValue"}, <<"Ipv4MaskValue">>)
  \o Derived({"AttributeChecker"}, <<"Ipv6AddressChecker">>)
  \o Derived({"AttributeValue"}, <<"Ipv6AddressValue">>)
  \o Derived({"AttributeChecker"}, <<"Ipv6PrefixChecker">>)
  \o Derived({"AttributeValue"}, <<"Ipv6PrefixValue">>)
  \o Derived({"ErrorModel"}, <<"ListErrorModel">>)
  \o Derived({"RandomVariableStream"}, <<"LogNormalRandomVariable">>)
  \o Derived({"AttributeChecker"}, <<"Mac16AddressChecker">>)
  \o Derived({"AttributeValue"}, <<"Mac16AddressValue">>)
  \o Derived({"AttributeChecker"}, <<"Mac48AddressChecker">>)
  \o Derived({"AttributeValue"}, <<"Mac48AddressValue">>)
  \o Derived({"AttributeChecker"}, <<"Mac64AddressChecker">>)
  \o Derived({"AttributeValue"}, <<"Mac64AddressValue">>)

\* From MinMaxAvgTotalCalculator<uint> to QueueDiscItem.
DeviceTypes ==
  Derived({"DataCalculator", "StatisticalSummary"}, <<"MinMaxAvgTotalCalculator<uint>">>)
  \o Derived({"Object"}, <<"NetDevice">>)
  \o Inner("NetDevice", <<"NetDevice::PacketType">>)
  \o Derived({"RefCount<NetDeviceQueue>"}, <<"NetDeviceQueue">>)
  \o Derived({"Object"}, <<"NetDeviceQueueInterface">>)
  \o Derived({"RefCount<NixVector>"}, <<"NixVector">>)
  \o Derived({"Object"}, <<"Node">>)
  \o Derived({"RandomVariableStream"}, <<"NormalRandomVariable">>)
  \o Derived({"AttributeChecker"}, <<"ObjectFactoryChecker">>)
  \o Derived({"AttributeValue"}, <<"ObjectFactoryValue">>)
  \o Own({"Application"}, <<"OnOffApplication">>)
  \o Derived({"RefCount<OutputStreamWrapper>"}, <<"OutputStreamWrapper">>)
  \o Derived({"RefCount<Packet>"}, <<"Packet">>)
  \o Own({"Application"}, <<"PacketSink">>)
  \o Derived({"MinMaxAvgTotalCalculator<uint>"}, <<"PacketSizeMinMaxAvgTotalCalculator">>)
  \o Derived({"Socket"}, <<"PacketSocket">>)
  \o Derived({"Application"}, <<"PacketSocketClient">>)
  \o Derived({"SocketFactory"}, <<"PacketSocketFactory">>)
  \o Derived({"Application"}, <<"PacketSocketServer">>)
  \o Derived({"RandomVariableStream"}, <<"ParetoRandomVariable">>)
  \o Derived({"RefCount<PbbAddressBlock>"}, <<"PbbAddressBlock">>)
  \o Derived({"PbbAddressBlock"}, <<"PbbAddressBlockIpv4", "PbbAddressBlockIpv6">>)
  \o Derived({"RefCount<PbbMessage>"}, <<"PbbMessage">>)
  \o Derived({"PbbMessage"}, <<"PbbMessageIpv4", "PbbMessageIpv6">>)
  \o Derived({"RefCount<PbbPacket,Header>"}, <<"PbbPacket">>)
  \o Derived({"RefCount<PbbTlv>"}, <<"PbbTlv">>)
  \o Derived({"DataCollectionObject"}, <<"Probe">>)
  \o Derived({"QueueBase"}, <<"Queue<Packet>", "Queue<QueueDiscItem>">>)
  \o Derived({"RefCount<QueueItem>"}, <<"QueueItem">>)
  \o Inner("QueueItem", <<"QueueItem::Uint8Values">>)
  \o Derived({"ErrorModel"}, <<"RateErrorModel">>)
  \o Inner("RateErrorModel", <<"RateErrorModel::ErrorUnit">>)
  \o Derived({"ErrorModel"}, <<"ReceiveListErrorModel">>)
  \o Derived({"Channel"}, <<"SimpleChannel">>)
  \o Derived({"NetDevice"}, <<"SimpleNetDevice">>)
  \o Derived({"AttributeValue"}, <<"TimeValue">>)
  \o Derived({"AttributeChecker"}, <<"TypeIdChecker">>)
  \o Derived({"AttributeValue"}, <<"TypeIdValue">>)
  \o Own({"Application"}, <<"UdpClient", "UdpEchoClient", "UdpEchoServer", "UdpServer",
         "UdpTraceClient">>)
  \o Derived({"AttributeValue"}, <<"UintegerValue">>)
  \o Derived({"AttributeChecker"}, <<"AddressChecker">>)
  \o Derived({"AttributeValue"}, <<"AddressValue">>)
  \o Own({"Probe"}, <<"ApplicationPacketProbe">>)
  \o Derived({"ErrorModel"}, <<"BinaryErrorModel", "BurstErrorModel">>)
  \o Derived({"CallbackImplBase"}, <<
         "CallbackImpl(bool,NetDevice,Packet,ushort,Address,Address,PacketType)",
         "CallbackImpl(bool,NetDevice,Packet,ushort,Address)",
         "CallbackImpl(bool,Socket,Address)", "CallbackImpl(ObjectBase)",
         "CallbackImpl(uchar,QueueItem)", "CallbackImpl(void,Packet,Address)",
         "CallbackImpl(void,Packet)", "CallbackImpl(void,QueueDiscItem)",
         "CallbackImpl(void,NetDevice,Packet,ushort,Address,Address,PacketType)",
         "CallbackImpl(void,NetDevice)", "CallbackImpl(void,Socket,Address)",
         "CallbackImpl(void,Socket)", "CallbackImpl(void,Socket,uint)", "CallbackImpl(void)",
         "CallbackImpl(void,uint,uint)">>)
  \o Derived({"DataCalculator"}, <<"CounterCalculator<uint>">>)
  \o Derived({"SimpleChannel"}, <<"ErrorChannel">>)
  \o Derived({"CounterCalculator<uint>"}, <<"PacketCounterCalculator">>)
  \o Derived({"Probe"}, <<"PacketProbe">>)
  \o Derived({"PbbTlv"}, <<"PbbAddressTlv">>)
  \o Derived({"QueueItem"}, <<"QueueDiscItem">>)

ContainersBug == Plain(<<"list<Packet>", "vector<Ipv6Address>">>)

\* The containers and the aliases of the module itself.
Containers ==
  Plain(<<"map<string, LogComponent *>", "list<Packet>", "vector<Ipv6Address>", "list<uint>",
         "list<Socket>">>)
  \o Alias("SequenceNumber<uint, int>", <<"SequenceNumber32">>)
  \o Alias("SequenceNumber<ushort, short>", <<"SequenceNumber16">>)
  \o Alias("SequenceNumber<uchar, schar>", <<"SequenceNumber8">>)
  \o Alias("Callback(bool,Packet)", <<"GenericPhyTxStartCallback">>)
  \o Alias("Callback(void,Packet)", <<"GenericPhyTxEndCallback">>)
  \o Alias("Callback(void)", <<"GenericPhyRxStartCallback", "GenericPhyRxEndErrorCallback">>)
  \o Alias("Callback(void,Packet)", <<"GenericPhyRxEndOkCallback">>)
  \o Alias("function pointer", <<"LogTimePrinter", "LogNodePrinter">>)

HashTypesBug ==
  Derived({"Hash::Implementation"}, <<"Hash::Function::Fnv1a">>)
  \o Derived({"RefCount<Hash::Implementation>"}, <<"Hash::Implementation">>)

\* The namespace Hash and the namespace Function inside it.
HashTypes ==
  Derived({"RefCount<Hash::Implementation>"}, <<"Hash::Implementation">>)
  \o Alias("function pointer", <<"Hash::Hash32Function_ptr", "Hash::Hash64Function_ptr">>)
  \o Plain(<<"namespace Hash::Function">>)
  \o Derived({"Hash::Implementation"}, <<"Hash::Function::Fnv1a", "Hash::Function::Hash32",
         "Hash::Function::Hash64", "Hash::Function::Murmur3">>)

\* The namespace TracedValueCallback.
TracedValueTypes ==
  Alias("function pointer", <<"TracedValueCallback::Time",
         "TracedValueCallback::SequenceNumber32", "TracedValueCallback::Bool",
         "TracedValueCallback::Int8", "TracedValueCallback::Uint8",
         "TracedValueCallback::Int16", "TracedValueCallback::Uint16",
         "TracedValueCallback::Int32", "TracedValueCallback::Uint32",
         "TracedValueCallback::Double", "TracedValueCallback::Void">>)

(* The namespaces, each with its types: the other four have none. *)
NamespaceTypes ==
  Plain(<<"namespace FatalImpl", "namespace Hash">>) \o HashTypes
  \o Plain(<<"namespace TracedValueCallback">>) \o TracedValueTypes
  \o Plain(<<"namespace addressUtils", "namespace internal", "namespace tests">>)

RegisterTypesCalls ==
  HelperTypes \o HeaderTypes \o RandomTypes \o DeviceTypes \o Containers
  \o NamespaceTypes
=============================================================================
