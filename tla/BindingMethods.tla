--------------------------- MODULE BindingMethods ---------------------------
(* What register_methods of modulegen__gcc_LP64.py asks for, class by class in the *)
(* order of its calls: the data on which Bindings works. Names are those of        *)
(* BindingTypes. The parameters, attributes and return values of built-in types    *)
(* are left out, and so is the class itself, which every class can name.           *)
EXTENDS Naturals, Sequences

(* One register_..._methods call: the class, the types its wrappers name, the      *)
(* types they point to with a Ptr, the methods they declare pure virtual, and the  *)
(* inherited pure virtual methods that they declare virtual.                       *)
Defining(c, uses, pointees, pure, overrides) ==
  [class |-> c, uses |-> uses, pointees |-> pointees, pure |-> pure,
   overrides |-> overrides]

Wraps(c, uses, pointees) == Defining(c, uses, pointees, {}, {})
Requiring(c, uses, pointees, pure) == Defining(c, uses, pointees, pure, {})
Giving(c, uses, pointees, overrides) == Defining(c, uses, pointees, {}, overrides)

(* The pure virtual methods of the classes that other classes implement. *)

SerializationApi == {"Deserialize", "GetSerializedSize", "Print", "Serialize"}

QueueLimitsApi == {"Available", "Completed", "Queued", "Reset"}

RandomVariableStreamApi == {"GetInteger", "GetValue"}

SocketApi ==
  {"Bind", "Bind6", "Close", "Connect", "GetAllowBroadcast", "GetErrno", "GetNode",
   "GetPeerName", "GetRxAvailable", "GetSockName", "GetSocketType", "GetTxAvailable",
   "Listen", "Recv", "RecvFrom", "Send", "SendTo", "SetAllowBroadcast", "ShutdownRecv",
   "ShutdownSend"}

AttributeAccessorApi == {"Get", "HasGetter", "HasSetter", "Set"}

AttributeCheckerApi ==
  {"Check", "Copy", "Create", "GetUnderlyingTypeInformation", "GetValueTypeName",
   "HasUnderlyingTypeInformation"}

AttributeValueApi == {"Copy", "DeserializeFromString", "SerializeToString"}

ChannelApi == {"GetDevice", "GetNDevices"}

ErrorModelApi == {"DoCorrupt", "DoReset"}

NetDeviceApi ==
  {"AddLinkChangeCallback", "GetAddress", "GetBroadcast", "GetChannel", "GetIfIndex",
   "GetMtu", "GetMulticast", "GetNode", "IsBridge", "IsBroadcast", "IsLinkUp",
   "IsMulticast", "IsPointToPoint", "NeedsArp", "Send", "SendFrom", "SetAddress",
   "SetIfIndex", "SetMtu", "SetNode", "SetPromiscReceiveCallback", "SetReceiveCallback",
   "SupportsSendFrom"}

PbbAddressBlockApi ==
  {"DeserializeAddress", "GetAddressLength", "PrintAddress", "SerializeAddress"}

PbbMessageApi ==
  {"AddressBlockDeserialize", "DeserializeOriginatorAddress", "GetAddressLength",
   "PrintOriginatorAddress", "SerializeOriginatorAddress"}

ProbeApi == {"ConnectByObject", "ConnectByPath"}

QueueApi == {"Dequeue", "Enqueue", "Peek", "Remove"}

HashImplementationApi == {"GetHash32", "clear"}

FromAddress == <<
    Wraps("Address", {"TagBuffer"}, {}),
    Wraps("ApplicationContainer", {"ApplicationContainer::Iterator", "Time"},
      {"Application"}) >>

FromAsciiFile == <<
    Wraps("AsciiFile", {"ios_base::openmode"}, {}),
    Wraps("AsciiTraceHelper", {"ios_base::openmode"}, {"NetDevice", "Object",
      "OutputStreamWrapper", "Packet"}),
    Requiring("AsciiTraceHelperForDevice", {"NetDeviceContainer", "NodeContainer"},
      {"NetDevice", "OutputStreamWrapper"}, {"EnableAsciiInternal"}) >>

FromAttributeConstructionList == <<
    Wraps("AttributeConstructionList", {"AttributeConstructionList::CIterator"},
      {"AttributeChecker", "AttributeValue"}),
    Wraps("AttributeConstructionList::Item", {}, {"AttributeChecker", "AttributeValue"}),
    Wraps("Buffer", {"Buffer::Iterator"}, {}) >>

FromBufferIterator == <<
    Wraps("Buffer::Iterator", {}, {}) >>

FromBulkSendHelper == <<
    Wraps("BulkSendHelper", {"Address", "ApplicationContainer", "AttributeValue",
      "NodeContainer"}, {"Node"}),
    Wraps("ByteTagIterator", {"ByteTagIterator::Item"}, {}),
    Wraps("ByteTagIterator::Item", {"Tag", "TypeId"}, {}),
    Wraps("ByteTagList", {"ByteTagList::Iterator", "TagBuffer", "TypeId"}, {}),
    Wraps("ByteTagList::Iterator", {"ByteTagList::Iterator::Item"}, {}),
    Wraps("ByteTagList::Iterator::Item", {"TagBuffer", "TypeId"}, {}) >>

FromCallbackBase == <<
    Wraps("CallbackBase", {}, {"CallbackImplBase"}),
    Wraps("ChannelList", {"ChannelList::Iterator"}, {"Channel"}),
    Requiring("DataOutputCallback", {"StatisticalSummary", "Time"}, {}, {"OutputSingleton",
      "OutputStatistic"}),
    Wraps("DataRate", {"Time"}, {}),
    Wraps("Deleter<AttributeAccessor>", {"AttributeAccessor"}, {}),
    Wraps("Deleter<AttributeChecker>", {"AttributeChecker"}, {}) >>

FromDeleterAttributeValue == <<
    Wraps("Deleter<AttributeValue>", {"AttributeValue"}, {}),
    Wraps("Deleter<CallbackImplBase>", {"CallbackImplBase"}, {}),
    Wraps("Deleter<EventImpl>", {"EventImpl"}, {}),
    Wraps("Deleter<Hash::Implementation>", {"Hash::Implementation"}, {}),
    Wraps("Deleter<NetDeviceQueue>", {"NetDeviceQueue"}, {}),
    Wraps("Deleter<NixVector>", {"NixVector"}, {}),
    Wraps("Deleter<OutputStreamWrapper>", {"OutputStreamWrapper"}, {}),
    Wraps("Deleter<Packet>", {"Packet"}, {}),
    Wraps("Deleter<PbbAddressBlock>", {"PbbAddressBlock"}, {}),
    Wraps("Deleter<PbbMessage>", {"PbbMessage"}, {}),
    Wraps("Deleter<PbbTlv>", {"PbbTlv"}, {}),
    Wraps("Deleter<QueueItem>", {"QueueItem"}, {}) >>

FromDeleterTraceSourceAccessor == <<
    Wraps("Deleter<TraceSourceAccessor>", {"TraceSourceAccessor"}, {}),
    Wraps("DelayJitterEstimation", {"Time"}, {"Packet"}),
    Wraps("EventId", {}, {"EventImpl"}),
    Wraps("Hasher", {}, {"Hash::Implementation"}) >>

FromInet6SocketAddress == <<
    Wraps("Inet6SocketAddress", {"Address", "Ipv6Address"}, {}),
    Wraps("InetSocketAddress", {"Address", "Ipv4Address"}, {}) >>

FromIpv4Address == <<
    Wraps("Ipv4Address", {"Address", "Ipv4Mask"}, {}) >>

FromIpv4Mask == <<
    Wraps("Ipv4Mask", {"Ipv4Address"}, {}) >>

FromIpv6Address == <<
    Wraps("Ipv6Address", {"Address", "Ipv4Address", "Ipv6Prefix", "Mac16Address",
      "Mac48Address", "Mac64Address"}, {}) >>

FromIpv6Prefix == <<
    Wraps("Ipv6Prefix", {"Ipv6Address"}, {}),
    Wraps("LogComponent", {"LogComponent::ComponentList", "LogLevel"}, {}),
    Wraps("Mac16Address", {"Address"}, {}) >>

FromMac48Address == <<
    Wraps("Mac48Address", {"Address", "Ipv4Address", "Ipv6Address"}, {}),
    Wraps("Mac64Address", {"Address"}, {}) >>

FromNetDeviceContainer == <<
    Wraps("NetDeviceContainer", {"NetDeviceContainer::Iterator"}, {"NetDevice"}),
    Wraps("NodeContainer", {"NodeContainer::Iterator"}, {"Node"}),
    Wraps("NodeList", {"NodeList::Iterator"}, {"Node"}),
    Wraps("NonCopyable", {}, {}) >>

FromObjectBase == <<
    Requiring("ObjectBase", {"AttributeConstructionList", "AttributeValue", "CallbackBase",
      "TypeId"}, {}, {"GetInstanceTypeId"}),
    Wraps("ObjectDeleter", {"Object"}, {}),
    Wraps("ObjectFactory", {"AttributeValue", "TypeId"}, {"Object"}),
    Wraps("OnOffHelper", {"Address", "ApplicationContainer", "AttributeValue", "DataRate",
      "NodeContainer"}, {"Node"}) >>

FromPacketLossCounter == <<
    Wraps("PacketLossCounter", {}, {}),
    Wraps("PacketMetadata", {"Buffer", "Header", "PacketMetadata::ItemIterator", "Trailer"},
      {}),
    Wraps("PacketMetadata::Item", {"Buffer::Iterator", "PacketMetadata::Item::ItemType",
      "TypeId"}, {}),
    Wraps("PacketMetadata::ItemIterator", {"Buffer", "PacketMetadata",
      "PacketMetadata::Item"}, {}) >>

FromPacketSinkHelper == <<
    Wraps("PacketSinkHelper", {"Address", "ApplicationContainer", "AttributeValue",
      "NodeContainer"}, {"Node"}),
    Wraps("PacketSocketAddress", {"Address"}, {}),
    Wraps("PacketSocketHelper", {"NodeContainer"}, {"Node"}),
    Wraps("PacketTagIterator", {"PacketTagIterator::Item"}, {}),
    Wraps("PacketTagIterator::Item", {"Tag", "TypeId"}, {}) >>

FromPacketTagList == <<
    Wraps("PacketTagList", {"PacketTagList::TagData", "Tag"}, {}),
    Wraps("PacketTagList::TagData", {"TypeId"}, {}),
    Wraps("ParameterLogger", {}, {}) >>

FromPbbAddressTlvBlock == <<
    Wraps("PbbAddressTlvBlock", {"Buffer::Iterator", "PbbAddressTlvBlock::ConstIterator",
      "PbbAddressTlvBlock::Iterator", "list<PbbAddressTlv>::iterator"}, {"PbbAddressTlv"}) >>

FromPbbTlvBlock == <<
    Wraps("PbbTlvBlock", {"Buffer::Iterator", "PbbTlvBlock::ConstIterator",
      "PbbTlvBlock::Iterator", "list<PbbTlv>::iterator"}, {"PbbTlv"}) >>

FromPcapFile == <<
    Wraps("PcapFile", {"Header", "ios_base::openmode"}, {"Packet"}),
    Wraps("PcapHelper", {"PcapHelper::DataLinkType", "ios_base::openmode"}, {"NetDevice",
      "Object", "PcapFileWrapper"}),
    Requiring("PcapHelperForDevice", {"NetDeviceContainer", "NodeContainer"}, {"NetDevice"},
      {"EnablePcapInternal"}) >>

FromSimpleNetDeviceHelper == <<
    Wraps("SimpleNetDeviceHelper", {"AttributeValue", "NetDeviceContainer", "NodeContainer"},
      {"Node", "SimpleChannel"}),
    Wraps("RefCount<Object,ObjectBase>", {}, {}),
    Wraps("Simulator", {"EventId", "ObjectFactory", "Time"}, {"SimulatorImpl"}) >>

FromStatisticalSummary == <<
    Requiring("StatisticalSummary", {}, {}, {"getCount", "getMax", "getMean", "getMin",
      "getSqrSum", "getStddev", "getSum", "getVariance"}),
    Wraps("SystemWallClockMs", {}, {}),
    Requiring("Tag", {"TagBuffer", "TypeId"}, {}, SerializationApi) >>

FromTagBuffer == <<
    Wraps("TagBuffer", {}, {}),
    Wraps("TimeWithUnit", {"Time", "Time::Unit"}, {}),
    Wraps("TracedValue<uint>", {"CallbackBase"}, {}) >>

FromTypeId == <<
    Wraps("TypeId", {"Callback(ObjectBase)", "TypeId::AttributeInformation",
      "TypeId::SupportLevel", "TypeId::TraceSourceInformation", "TypeId::hash_t"},
      {"AttributeAccessor", "AttributeChecker", "AttributeValue", "TraceSourceAccessor"}) >>

FromTypeIdAttributeInformation == <<
    Wraps("TypeId::AttributeInformation", {"TypeId::SupportLevel"}, {"AttributeAccessor",
      "AttributeChecker", "AttributeValue"}),
    Wraps("TypeId::TraceSourceInformation", {"TypeId::SupportLevel"},
      {"TraceSourceAccessor"}),
    Wraps("UdpClientHelper", {"Address", "ApplicationContainer", "AttributeValue",
      "NodeContainer"}, {}),
    Wraps("UdpEchoClientHelper", {"Address", "ApplicationContainer", "AttributeValue",
      "NodeContainer"}, {"Application", "Node"}),
    Wraps("UdpEchoServerHelper", {"ApplicationContainer", "AttributeValue", "NodeContainer"},
      {"Node"}),
    Wraps("UdpServerHelper", {"ApplicationContainer", "AttributeValue", "NodeContainer"},
      {"UdpServer"}) >>

FromUdpTraceClientHelper == <<
    Wraps("UdpTraceClientHelper", {"Address", "ApplicationContainer", "AttributeValue",
      "NodeContainer"}, {}),
    Wraps("empty", {}, {}),
    Wraps("int64x64_t", {"int64x64_t::impl_type"}, {}),
    Requiring("Chunk", {"Buffer::Iterator", "TypeId"}, {}, {"Deserialize", "Print"}) >>

FromDeviceNameTag == <<
    Giving("DeviceNameTag", {"TagBuffer", "TypeId"}, {}, SerializationApi \cup
      {"GetInstanceTypeId"}),
    Giving("FlowIdTag", {"TagBuffer", "TypeId"}, {}, SerializationApi \cup
      {"GetInstanceTypeId"}),
    Requiring("Header", {"Buffer::Iterator", "TypeId"}, {}, SerializationApi) >>

FromLlcSnapHeader == <<
    Giving("LlcSnapHeader", {"Buffer::Iterator", "TypeId"}, {}, SerializationApi \cup
      {"GetInstanceTypeId"}),
    Giving("Object", {"Object::AggregateIterator", "TypeId"}, {"NetDevice", "Object"},
      {"GetInstanceTypeId"}),
    Wraps("Object::AggregateIterator", {}, {"Object"}) >>

FromPacketBurst == <<
    Wraps("PacketBurst", {"TypeId", "list<Packet>", "list<Packet>::const_iterator"},
      {"Packet", "PacketBurst"}),
    Giving("PacketSocketTag", {"Address", "NetDevice::PacketType", "TagBuffer", "TypeId"},
      {}, SerializationApi \cup {"GetInstanceTypeId"}) >>

FromPcapFileWrapper == <<
    Wraps("PcapFileWrapper", {"Header", "Time", "TypeId", "ios_base::openmode"}, {"Packet"})
      >>

FromQueueBase == <<
    Wraps("QueueBase", {"QueueBase::QueueMode", "TypeId"}, {}),
    Requiring("QueueLimits", {"TypeId"}, {}, QueueLimitsApi) >>

FromRadiotapHeader == <<
    Giving("RadiotapHeader", {"Buffer::Iterator", "TypeId"}, {}, SerializationApi \cup
      {"GetInstanceTypeId"}) >>

FromRandomVariableStream == <<
    Requiring("RandomVariableStream", {"RngStream", "TypeId"}, {}, RandomVariableStreamApi),
    Giving("SeqTsHeader", {"Buffer::Iterator", "Time", "TypeId"}, {}, SerializationApi \cup
      {"GetInstanceTypeId"}),
    Giving("SequentialRandomVariable", {"TypeId"}, {"RandomVariableStream"},
      RandomVariableStreamApi),
    Wraps("RefCount<AttributeAccessor>", {}, {}),
    Wraps("RefCount<AttributeChecker>", {}, {}) >>

FromRefCountAttributeValue == <<
    Wraps("RefCount<AttributeValue>", {}, {}),
    Wraps("RefCount<CallbackImplBase>", {}, {}),
    Wraps("RefCount<EventImpl>", {}, {}),
    Wraps("RefCount<Hash::Implementation>", {}, {}),
    Wraps("RefCount<NetDeviceQueue>", {}, {}),
    Wraps("RefCount<NixVector>", {}, {}),
    Wraps("RefCount<OutputStreamWrapper>", {}, {}),
    Wraps("RefCount<Packet>", {}, {}),
    Wraps("RefCount<PbbAddressBlock>", {}, {}),
    Wraps("RefCount<PbbMessage>", {}, {}),
    Wraps("RefCount<PbbPacket,Header>", {}, {}),
    Wraps("RefCount<PbbTlv>", {}, {}),
    Wraps("RefCount<QueueItem>", {}, {}),
    Wraps("RefCount<TraceSourceAccessor>", {}, {}) >>

FromSllHeader == <<
    Giving("SllHeader", {"Buffer::Iterator", "SllHeader::PacketType", "TypeId"}, {},
      SerializationApi \cup {"GetInstanceTypeId"}) >>

FromSocket == <<
    Requiring("Socket", {"Address", "Callback(bool,Socket,Address)", "Callback(void,Socket)",
      "Callback(void,Socket,Address)", "Callback(void,Socket,uint)", "Ipv6Address",
      "Socket::Ipv6MulticastFilterMode", "Socket::SocketErrno", "Socket::SocketType",
      "TypeId", "vector<Ipv6Address>"}, {"NetDevice", "Node", "Packet", "Socket"}, SocketApi)
      >>

FromSocketFactory == <<
    Requiring("SocketFactory", {"TypeId"}, {"Socket"}, {"CreateSocket"}),
    Giving("SocketIpTosTag", {"TagBuffer", "TypeId"}, {}, SerializationApi \cup
      {"GetInstanceTypeId"}),
    Giving("SocketIpTtlTag", {"TagBuffer", "TypeId"}, {}, SerializationApi \cup
      {"GetInstanceTypeId"}) >>

FromSocketIpv6HopLimitTag == <<
    Giving("SocketIpv6HopLimitTag", {"TagBuffer", "TypeId"}, {}, SerializationApi \cup
      {"GetInstanceTypeId"}),
    Giving("SocketIpv6TclassTag", {"TagBuffer", "TypeId"}, {}, SerializationApi \cup
      {"GetInstanceTypeId"}),
    Giving("SocketPriorityTag", {"TagBuffer", "TypeId"}, {}, SerializationApi \cup
      {"GetInstanceTypeId"}) >>

FromSocketSetDontFragmentTag == <<
    Giving("SocketSetDontFragmentTag", {"TagBuffer", "TypeId"}, {}, SerializationApi \cup
      {"GetInstanceTypeId"}) >>

FromTime == <<
    Wraps("Time", {"Time::Unit", "TimeWithUnit", "int64x64_t"}, {}) >>

FromTraceSourceAccessor == <<
    Requiring("TraceSourceAccessor", {"CallbackBase", "ObjectBase"}, {}, {"Connect",
      "ConnectWithoutContext", "Disconnect", "DisconnectWithoutContext"}),
    Requiring("Trailer", {"Buffer::Iterator", "TypeId"}, {}, SerializationApi),
    Giving("TriangularRandomVariable", {"TypeId"}, {}, RandomVariableStreamApi),
    Giving("UniformRandomVariable", {"TypeId"}, {}, RandomVariableStreamApi) >>

FromWeibullRandomVariable == <<
    Giving("WeibullRandomVariable", {"TypeId"}, {}, RandomVariableStreamApi),
    Giving("ZetaRandomVariable", {"TypeId"}, {}, RandomVariableStreamApi),
    Giving("ZipfRandomVariable", {"TypeId"}, {}, RandomVariableStreamApi) >>

FromApplication == <<
    Wraps("Application", {"Time", "TypeId"}, {"Node"}),
    Requiring("AttributeAccessor", {"AttributeValue", "ObjectBase"}, {},
      AttributeAccessorApi),
    Requiring("AttributeChecker", {}, {"AttributeValue"}, AttributeCheckerApi),
    Requiring("AttributeValue", {}, {"AttributeChecker", "AttributeValue"},
      AttributeValueApi),
    Wraps("BooleanChecker", {}, {}) >>

FromBooleanValue == <<
    Giving("BooleanValue", {}, {"AttributeChecker", "AttributeValue"}, AttributeValueApi),
    Wraps("BulkSendApplication", {"TypeId"}, {"Socket"}),
    Wraps("CallbackChecker", {}, {}) >>

FromCallbackImplBase == <<
    Requiring("CallbackImplBase", {}, {"CallbackImplBase"}, {"GetTypeid", "IsEqual"}),
    Giving("CallbackValue", {"CallbackBase"}, {"AttributeChecker", "AttributeValue"},
      AttributeValueApi),
    Requiring("Channel", {"TypeId"}, {"NetDevice"}, ChannelApi) >>

FromConstantRandomVariable == <<
    Giving("ConstantRandomVariable", {"TypeId"}, {}, RandomVariableStreamApi),
    Requiring("DataCalculator", {"DataOutputCallback", "Time", "TypeId"}, {}, {"Output"}),
    Wraps("DataCollectionObject", {"TypeId"}, {}) >>

FromDataOutputInterface == <<
    Requiring("DataOutputInterface", {"DataCollector", "TypeId"}, {}, {"Output"}),
    Wraps("DataRateChecker", {}, {}),
    Giving("DataRateValue", {"DataRate"}, {"AttributeChecker", "AttributeValue"},
      AttributeValueApi),
    Giving("DeterministicRandomVariable", {"TypeId"}, {}, RandomVariableStreamApi),
    Giving("DoubleValue", {}, {"AttributeChecker", "AttributeValue"}, AttributeValueApi) >>

FromDynamicQueueLimits == <<
    Giving("DynamicQueueLimits", {"TypeId"}, {}, QueueLimitsApi),
    Giving("EmpiricalRandomVariable", {"TypeId"}, {}, RandomVariableStreamApi),
    Giving("EmptyAttributeAccessor", {"AttributeValue", "ObjectBase"}, {},
      AttributeAccessorApi),
    Giving("EmptyAttributeChecker", {}, {"AttributeValue"}, AttributeCheckerApi) >>

FromEmptyAttributeValue == <<
    Giving("EmptyAttributeValue", {}, {"AttributeChecker", "AttributeValue"},
      AttributeValueApi),
    Giving("EnumChecker", {}, {"AttributeValue"}, AttributeCheckerApi),
    Giving("EnumValue", {}, {"AttributeChecker", "AttributeValue"}, AttributeValueApi),
    Giving("ErlangRandomVariable", {"TypeId"}, {}, RandomVariableStreamApi) >>

FromErrorModel == <<
    Requiring("ErrorModel", {"TypeId"}, {"Packet"}, ErrorModelApi),
    Giving("EthernetHeader", {"Buffer::Iterator", "Mac48Address", "TypeId",
      "ethernet_header_t"}, {}, SerializationApi \cup {"GetInstanceTypeId"}) >>

FromEthernetTrailer == <<
    Giving("EthernetTrailer", {"Buffer::Iterator", "TypeId"}, {"Packet"}, SerializationApi
      \cup {"GetInstanceTypeId"}),
    Requiring("EventImpl", {}, {}, {"Notify"}),
    Giving("ExponentialRandomVariable", {"TypeId"}, {}, RandomVariableStreamApi) >>

FromGammaRandomVariable == <<
    Giving("GammaRandomVariable", {"TypeId"}, {}, RandomVariableStreamApi),
    Giving("IntegerValue", {}, {"AttributeChecker", "AttributeValue"}, AttributeValueApi),
    Wraps("Ipv4AddressChecker", {}, {}),
    Giving("Ipv4AddressValue", {"Ipv4Address"}, {"AttributeChecker", "AttributeValue"},
      AttributeValueApi),
    Wraps("Ipv4MaskChecker", {}, {}),
    Giving("Ipv4MaskValue", {"Ipv4Mask"}, {"AttributeChecker", "AttributeValue"},
      AttributeValueApi) >>

FromIpv6AddressChecker == <<
    Wraps("Ipv6AddressChecker", {}, {}),
    Giving("Ipv6AddressValue", {"Ipv6Address"}, {"AttributeChecker", "AttributeValue"},
      AttributeValueApi),
    Wraps("Ipv6PrefixChecker", {}, {}),
    Giving("Ipv6PrefixValue", {"Ipv6Prefix"}, {"AttributeChecker", "AttributeValue"},
      AttributeValueApi),
    Giving("ListErrorModel", {"TypeId", "list<uint>"}, {"Packet"}, ErrorModelApi),
    Giving("LogNormalRandomVariable", {"TypeId"}, {}, RandomVariableStreamApi) >>

FromMac16AddressChecker == <<
    Wraps("Mac16AddressChecker", {}, {}),
    Giving("Mac16AddressValue", {"Mac16Address"}, {"AttributeChecker", "AttributeValue"},
      AttributeValueApi),
    Wraps("Mac48AddressChecker", {}, {}),
    Giving("Mac48AddressValue", {"Mac48Address"}, {"AttributeChecker", "AttributeValue"},
      AttributeValueApi),
    Wraps("Mac64AddressChecker", {}, {}),
    Giving("Mac64AddressValue", {"Mac64Address"}, {"AttributeChecker", "AttributeValue"},
      AttributeValueApi) >>

FromMinMaxAvgTotalCalculatorUint == <<
    Giving("MinMaxAvgTotalCalculator<uint>", {"DataOutputCallback", "TypeId"}, {}, {"Output",
      "getCount", "getMax", "getMean", "getMin", "getSqrSum", "getStddev", "getSum",
      "getVariance"}) >>

FromNetDevice == <<
    Requiring("NetDevice", {"Address", "Callback(bool,NetDevice,Packet,ushort,Address)",
      "Callback(bool,NetDevice,Packet,ushort,Address,Address,PacketType)", "Callback(void)",
      "Ipv4Address", "Ipv6Address", "TypeId"}, {"Channel", "Node", "Packet"}, NetDeviceApi)
      >>

FromNetDeviceQueue == <<
    Wraps("NetDeviceQueue", {"Callback(void)"}, {"QueueLimits"}),
    Wraps("NetDeviceQueueInterface", {"Callback(uchar,QueueItem)",
      "NetDeviceQueueInterface::SelectQueueCallback", "TypeId"}, {"NetDeviceQueue"}),
    Wraps("NixVector", {}, {"NixVector"}) >>

FromNode == <<
    Wraps("Node", {"Callback(void,NetDevice)",
      "Callback(void,NetDevice,Packet,ushort,Address,Address,PacketType)", "Time", "TypeId"},
      {"Application", "NetDevice"}),
    Giving("NormalRandomVariable", {"TypeId"}, {}, RandomVariableStreamApi),
    Wraps("ObjectFactoryChecker", {}, {}) >>

FromObjectFactoryValue == <<
    Giving("ObjectFactoryValue", {"ObjectFactory"}, {"AttributeChecker", "AttributeValue"},
      AttributeValueApi),
    Wraps("OnOffApplication", {"TypeId"}, {"Socket"}),
    Wraps("OutputStreamWrapper", {"ios_base::openmode"}, {}) >>

FromPacket == <<
    Wraps("Packet", {"ByteTagIterator", "Header", "PacketMetadata::ItemIterator",
      "PacketTagIterator", "Tag", "Trailer"}, {"NixVector", "Packet"}) >>

FromPacketSink == <<
    Wraps("PacketSink", {"TypeId", "list<Socket>"}, {"Socket"}),
    Wraps("PacketSizeMinMaxAvgTotalCalculator", {"Mac48Address", "TypeId"}, {"Packet"}) >>

FromPacketSocket == <<
    Giving("PacketSocket", {"Address", "Socket::SocketErrno", "Socket::SocketType",
      "TypeId"}, {"Node", "Packet"}, SocketApi) >>

FromPacketSocketClient == <<
    Wraps("PacketSocketClient", {"PacketSocketAddress", "TypeId"}, {}),
    Giving("PacketSocketFactory", {"TypeId"}, {"Socket"}, {"CreateSocket"}),
    Wraps("PacketSocketServer", {"PacketSocketAddress", "TypeId"}, {}),
    Giving("ParetoRandomVariable", {"TypeId"}, {}, RandomVariableStreamApi) >>

FromPbbAddressBlock == <<
    Requiring("PbbAddressBlock", {"Address", "Buffer::Iterator",
      "PbbAddressBlock::AddressIterator", "PbbAddressBlock::ConstAddressIterator",
      "PbbAddressBlock::ConstPrefixIterator", "PbbAddressBlock::ConstTlvIterator",
      "PbbAddressBlock::PrefixIterator", "PbbAddressBlock::TlvIterator",
      "PbbAddressTlvBlock::Iterator", "list<Address>::const_iterator",
      "list<Address>::iterator", "list<uchar>::iterator"}, {"PbbAddressTlv", "PbbTlv"},
      PbbAddressBlockApi) >>

FromPbbAddressBlockIpv4 == <<
    Giving("PbbAddressBlockIpv4", {"Address", "list<Address>::const_iterator"}, {},
      PbbAddressBlockApi),
    Giving("PbbAddressBlockIpv6", {"Address", "list<Address>::const_iterator"}, {},
      PbbAddressBlockApi) >>

FromPbbMessage == <<
    Requiring("PbbMessage", {"Address", "Buffer::Iterator", "PbbAddressLength",
      "PbbMessage::AddressBlockIterator", "PbbMessage::ConstAddressBlockIterator",
      "PbbMessage::ConstTlvIterator", "PbbMessage::TlvIterator",
      "list<PbbAddressBlock>::iterator", "list<PbbTlv>::iterator"}, {"PbbAddressBlock",
      "PbbMessage", "PbbTlv"}, PbbMessageApi) >>

FromPbbMessageIpv4 == <<
    Giving("PbbMessageIpv4", {"Address", "Buffer::Iterator", "PbbAddressLength"},
      {"PbbAddressBlock"}, PbbMessageApi),
    Giving("PbbMessageIpv6", {"Address", "Buffer::Iterator", "PbbAddressLength"},
      {"PbbAddressBlock"}, PbbMessageApi) >>

FromPbbPacket == <<
    Giving("PbbPacket", {"Buffer::Iterator", "PbbPacket::ConstMessageIterator",
      "PbbPacket::ConstTlvIterator", "PbbPacket::MessageIterator", "PbbPacket::TlvIterator",
      "TypeId", "list<PbbMessage>::iterator", "list<PbbTlv>::iterator"}, {"PbbMessage",
      "PbbTlv"}, SerializationApi \cup {"GetInstanceTypeId"}) >>

FromPbbTlv == <<
    Wraps("PbbTlv", {"Buffer", "Buffer::Iterator"}, {}),
    Requiring("Probe", {"TypeId"}, {"Object"}, ProbeApi) >>

FromQueuePacket == <<
    Requiring("Queue<Packet>", {"Queue<Packet>::ConstIterator", "TypeId",
      "list<Packet>::const_iterator"}, {"Packet"}, QueueApi) >>

FromQueueQueueDiscItem == <<
    Requiring("Queue<QueueDiscItem>", {"Queue<QueueDiscItem>::ConstIterator", "TypeId",
      "list<QueueDiscItem>::const_iterator"}, {"QueueDiscItem"}, QueueApi),
    Wraps("QueueItem", {"QueueItem::Uint8Values"}, {"Packet"}) >>

FromRateErrorModel == <<
    Giving("RateErrorModel", {"RateErrorModel::ErrorUnit", "TypeId"}, {"Packet",
      "RandomVariableStream"}, ErrorModelApi),
    Giving("ReceiveListErrorModel", {"TypeId", "list<uint>"}, {"Packet"}, ErrorModelApi),
    Giving("SimpleChannel", {"Mac48Address", "TypeId"}, {"NetDevice", "Packet",
      "SimpleNetDevice"}, ChannelApi) >>

FromSimpleNetDevice == <<
    Giving("SimpleNetDevice", {"Address", "Callback(bool,NetDevice,Packet,ushort,Address)",
      "Callback(bool,NetDevice,Packet,ushort,Address,Address,PacketType)", "Callback(void)",
      "Ipv4Address", "Ipv6Address", "Mac48Address", "Queue<Packet>", "TypeId"}, {"Channel",
      "ErrorModel", "Node", "Packet", "SimpleChannel"}, NetDeviceApi) >>

FromTimeValue == <<
    Giving("TimeValue", {"Time"}, {"AttributeChecker", "AttributeValue"}, AttributeValueApi),
    Wraps("TypeIdChecker", {}, {}),
    Giving("TypeIdValue", {"TypeId"}, {"AttributeChecker", "AttributeValue"},
      AttributeValueApi),
    Wraps("UdpClient", {"Address", "TypeId"}, {}) >>

FromUdpEchoClient == <<
    Wraps("UdpEchoClient", {"Address", "TypeId"}, {}),
    Wraps("UdpEchoServer", {"TypeId"}, {}),
    Wraps("UdpServer", {"TypeId"}, {}) >>

FromUdpTraceClient == <<
    Wraps("UdpTraceClient", {"Address", "Ipv4Address", "TypeId"}, {}),
    Giving("UintegerValue", {}, {"AttributeChecker", "AttributeValue"}, AttributeValueApi),
    Wraps("AddressChecker", {}, {}),
    Giving("AddressValue", {"Address"}, {"AttributeChecker", "AttributeValue"},
      AttributeValueApi) >>

FromApplicationPacketProbeBug == <<
    Giving("ApplicationPacketProbe", {}, {}, {"ConnectByObject"}) >>

FromApplicationPacketProbe == <<
    Giving("ApplicationPacketProbe", {"Address", "TypeId"}, {"Object", "Packet"}, ProbeApi),
    Giving("BinaryErrorModel", {"TypeId"}, {"Packet"}, ErrorModelApi),
    Giving("BurstErrorModel", {"TypeId"}, {"Packet", "RandomVariableStream"}, ErrorModelApi),
    Defining("CallbackImpl(bool,NetDevice,Packet,ushort,Address,Address,PacketType)",
      {"Address", "NetDevice::PacketType"}, {"NetDevice", "Packet"}, {"operator()"},
      {"GetTypeid"}),
    Defining("CallbackImpl(bool,NetDevice,Packet,ushort,Address)", {"Address"}, {"NetDevice",
      "Packet"}, {"operator()"}, {"GetTypeid"}) >>

FromCallbackImplBoolSocketAddress == <<
    Defining("CallbackImpl(bool,Socket,Address)", {"Address"}, {"Socket"}, {"operator()"},
      {"GetTypeid"}),
    Defining("CallbackImpl(ObjectBase)", {"ObjectBase"}, {}, {"operator()"}, {"GetTypeid"}),
    Defining("CallbackImpl(uchar,QueueItem)", {}, {"QueueItem"}, {"operator()"},
      {"GetTypeid"}),
    Defining("CallbackImpl(void,Packet,Address)", {"Address"}, {"Packet"}, {"operator()"},
      {"GetTypeid"}),
    Defining("CallbackImpl(void,Packet)", {}, {"Packet"}, {"operator()"}, {"GetTypeid"}),
    Defining("CallbackImpl(void,QueueDiscItem)", {}, {"QueueDiscItem"}, {"operator()"},
      {"GetTypeid"}) >>

FromCallbackImplVoidNetDevicePacketUshortAddressAddressPacketType == <<
    Defining("CallbackImpl(void,NetDevice,Packet,ushort,Address,Address,PacketType)",
      {"Address", "NetDevice::PacketType"}, {"NetDevice", "Packet"}, {"operator()"},
      {"GetTypeid"}),
    Defining("CallbackImpl(void,NetDevice)", {}, {"NetDevice"}, {"operator()"},
      {"GetTypeid"}),
    Defining("CallbackImpl(void,Socket,Address)", {"Address"}, {"Socket"}, {"operator()"},
      {"GetTypeid"}),
    Defining("CallbackImpl(void,Socket)", {}, {"Socket"}, {"operator()"}, {"GetTypeid"}),
    Defining("CallbackImpl(void,Socket,uint)", {}, {"Socket"}, {"operator()"}, {"GetTypeid"}),
    Defining("CallbackImpl(void)", {}, {}, {"operator()"}, {"GetTypeid"}) >>

FromCallbackImplVoidUintUint == <<
    Defining("CallbackImpl(void,uint,uint)", {}, {}, {"operator()"}, {"GetTypeid"}),
    Giving("CounterCalculator<uint>", {"DataOutputCallback", "TypeId"}, {}, {"Output"}),
    Giving("ErrorChannel", {"Mac48Address", "Time", "TypeId"}, {"NetDevice", "Packet",
      "SimpleNetDevice"}, ChannelApi),
    Wraps("PacketCounterCalculator", {"Mac48Address", "TypeId"}, {"Packet"}) >>

FromPacketProbe == <<
    Giving("PacketProbe", {"TypeId"}, {"Object", "Packet"}, ProbeApi),
    Wraps("PbbAddressTlv", {}, {}),
    Requiring("QueueDiscItem", {"Address", "Time"}, {"Packet"}, {"AddHeader", "Mark"}),
    Requiring("Hash::Implementation", {}, {}, HashImplementationApi) >>

FromHashFunctionFnv1a == <<
    Giving("Hash::Function::Fnv1a", {}, {}, HashImplementationApi),
    Giving("Hash::Function::Hash32", {"Hash::Hash32Function_ptr"}, {}, HashImplementationApi),
    Giving("Hash::Function::Hash64", {"Hash::Hash64Function_ptr"}, {}, HashImplementationApi),
    Giving("Hash::Function::Murmur3", {}, {}, HashImplementationApi) >>

(* The calls of register_methods. *)
RegisterMethodsCalls ==
  FromAddress \o FromAsciiFile \o FromAttributeConstructionList \o FromBufferIterator
  \o FromBulkSendHelper \o FromCallbackBase \o FromDeleterAttributeValue
  \o FromDeleterTraceSourceAccessor \o FromInet6SocketAddress \o FromIpv4Address
  \o FromIpv4Mask \o FromIpv6Address \o FromIpv6Prefix \o FromMac48Address
  \o FromNetDeviceContainer \o FromObjectBase \o FromPacketLossCounter
  \o FromPacketSinkHelper \o FromPacketTagList \o FromPbbAddressTlvBlock \o FromPbbTlvBlock
  \o FromPcapFile \o FromSimpleNetDeviceHelper \o FromStatisticalSummary \o FromTagBuffer
  \o FromTypeId \o FromTypeIdAttributeInformation \o FromUdpTraceClientHelper
  \o FromDeviceNameTag \o FromLlcSnapHeader \o FromPacketBurst \o FromPcapFileWrapper
  \o FromQueueBase \o FromRadiotapHeader \o FromRandomVariableStream
  \o FromRefCountAttributeValue \o FromSllHeader \o FromSocket \o FromSocketFactory
  \o FromSocketIpv6HopLimitTag \o FromSocketSetDontFragmentTag \o FromTime
  \o FromTraceSourceAccessor \o FromWeibullRandomVariable \o FromApplication
  \o FromBooleanValue \o FromCallbackImplBase \o FromConstantRandomVariable
  \o FromDataOutputInterface \o FromDynamicQueueLimits \o FromEmptyAttributeValue
  \o FromErrorModel \o FromEthernetTrailer \o FromGammaRandomVariable
  \o FromIpv6AddressChecker \o FromMac16AddressChecker \o FromMinMaxAvgTotalCalculatorUint
  \o FromNetDevice \o FromNetDeviceQueue \o FromNode \o FromObjectFactoryValue
  \o FromPacket \o FromPacketSink \o FromPacketSocket \o FromPacketSocketClient
  \o FromPbbAddressBlock \o FromPbbAddressBlockIpv4 \o FromPbbMessage \o FromPbbMessageIpv4
  \o FromPbbPacket \o FromPbbTlv \o FromQueuePacket \o FromQueueQueueDiscItem
  \o FromRateErrorModel \o FromSimpleNetDevice \o FromTimeValue \o FromUdpEchoClient
  \o FromUdpTraceClient \o FromApplicationPacketProbe \o FromCallbackImplBoolSocketAddress
  \o FromCallbackImplVoidNetDevicePacketUshortAddressAddressPacketType
  \o FromCallbackImplVoidUintUint \o FromPacketProbe \o FromHashFunctionFnv1a
=============================================================================
