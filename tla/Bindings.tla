------------------------------ MODULE Bindings ------------------------------
(* The run of modulegen__gcc_LP64.py that generates the Python bindings of the    *)
(* applications: it registers types, then the methods of the classes, then the    *)
(* functions of the namespaces, with PyBindGen. A name that is looked up in the   *)
(* module and is not there is a KeyError, which ends the run: its call then is    *)
(* never made. A wrapper of a type that PyBindGen does not know is skipped, with  *)
(* a warning that nobody has to read (ErrorHandler).                              *)
EXTENDS BindingTypes, BindingMethods, FiniteSets

VARIABLES
  driven,      \* the driver of ns-3 calls the functions, not main of the file
  phase,       \* types, customizations, methods, functions, done
  line,        \* the next call of the phase
  registered,  \* the names that the module knows
  converted,   \* the callback types that have a converter
  wrapped,     \* the classes whose methods are registered
  skipped      \* pairs of a class and a type that a skipped wrapper of it names

vars == <<driven, phase, line, registered, converted, wrapped, skipped>>

(* The callback types of callbacks_list.py. *)
CallbackClasses ==
  {"Callback(ObjectBase)", "Callback(void)",
   "Callback(bool,NetDevice,Packet,ushort,Address)",
   "Callback(bool,NetDevice,Packet,ushort,Address,Address,PacketType)",
   "Callback(void,NetDevice,Packet,ushort,Address,Address,PacketType)",
   "Callback(void,NetDevice)", "Callback(void,uint,uint)", "Callback(void,Packet)",
   "Callback(void,QueueDiscItem)", "Callback(uchar,QueueItem)",
   "Callback(void,Packet,Address)", "Callback(void,Socket)",
   "Callback(bool,Socket,Address)", "Callback(void,Socket,Address)",
   "Callback(void,Socket,uint)", "Callback(void,string,Packet)"}

(* register_functions asks for each namespace in turn; they have no functions. *)
RegisterFunctionsCalls ==
  <<"namespace FatalImpl", "namespace Hash", "namespace Hash::Function",
    "namespace TracedValueCallback", "namespace addressUtils", "namespace internal",
    "namespace tests">>

Elements(s) == {s[i] : i \in DOMAIN s}
TypeCalls == Elements(RegisterTypesCalls)
MethodCalls == Elements(RegisterMethodsCalls)
Names == {c.name : c \in TypeCalls}
OwnClasses == {c.name : c \in {d \in TypeCalls : d.own}}
ParentsOf == [n \in Names |-> UNION {c.parents : c \in {d \in TypeCalls : d.name = n}}]
TargetOf == [n \in Names |-> (CHOOSE c \in TypeCalls : c.name = n).alias]
HasPolicy == {c.name : c \in {d \in TypeCalls : d.counting}}

(* A class is reference counted when it or a class above it says so. *)
Counted[n \in Names] == n \in HasPolicy \/ \E p \in ParentsOf[n] : Counted[p]

(* The pure virtual methods that a class leaves to the classes below it. *)
Unimplemented[n \in Names] ==
  LET own == {c \in MethodCalls : c.class = n}
  IN UNION {c.pure : c \in own}
       \cup (UNION {Unimplemented[p] : p \in ParentsOf[n]} \ UNION {c.overrides : c \in own})

(* PyBindGen finds a type by its name, or by the type that the name is an alias of. *)
Known(t) ==
  \/ t \in converted
  \/ t \in registered /\ TargetOf[t] \in registered \cup converted

(* After the last call of a phase the next phase begins with its first call. *)
Advance(calls, next) ==
  IF line < Len(calls)
  THEN phase' = phase /\ line' = line + 1
  ELSE phase' = next /\ line' = 1

Init ==
  /\ driven \in BOOLEAN
  /\ phase = "types" /\ line = 1
  /\ registered = {} /\ converted = {} /\ wrapped = {} /\ skipped = {}

RegisterType ==
  /\ phase = "types"
  /\ RegisterTypesCalls[line].looks \subseteq registered
  /\ registered' = registered \cup {RegisterTypesCalls[line].name}
  /\ Advance(RegisterTypesCalls, IF driven THEN "customizations" ELSE "methods")
  /\ UNCHANGED <<driven, converted, wrapped, skipped>>

PostRegisterTypesBug ==
  /\ phase = "customizations"
  /\ phase' = "methods"
  /\ UNCHANGED <<driven, line, registered, converted, wrapped, skipped>>

(* Between the types and the methods the driver calls post_register_types, which  *)
(* only adds an include, and makes a converter for each entry of callback_classes. *)
PostRegisterTypes ==
  /\ phase = "customizations"
  /\ converted' = CallbackClasses
  /\ phase' = "methods"
  /\ UNCHANGED <<driven, line, registered, wrapped, skipped>>

RegisterMethods ==
  LET c == RegisterMethodsCalls[line]
  IN /\ phase = "methods"
     /\ c.class \in registered
     /\ wrapped' = wrapped \cup {c.class}
     /\ skipped' = skipped \cup
          {<<c.class, t>> : t \in {u \in c.uses \cup c.pointees : ~Known(u)}}
     /\ Advance(RegisterMethodsCalls, "functions")
     /\ UNCHANGED <<driven, registered, converted>>

RegisterFunctions ==
  /\ phase = "functions"
  /\ RegisterFunctionsCalls[line] \in registered
  /\ Advance(RegisterFunctionsCalls, "done")
  /\ UNCHANGED <<driven, registered, converted, wrapped, skipped>>

Next == RegisterType \/ PostRegisterTypes \/ RegisterMethods \/ RegisterFunctions

Spec == Init /\ [][Next]_vars

(* The run is sequential: a call that can be made is made. *)
FairSpec == Spec /\ WF_vars(Next)

-----------------------------------------------------------------------------
(* No wrapper hands Python a Ptr to a class without a reference count: everything *)
(* that a wrapped method points to is counted, itself or through a parent, or the *)
(* wrapper is one that was skipped.                                               *)
PointeesCounted ==
  \A c \in MethodCalls : c.class \in wrapped =>
    \A t \in c.pointees : <<c.class, t>> \in skipped \/ Counted[t]

(* The error handler drops a method without failing the build; no class that this *)
(* module itself exports loses one, with and without the driver.                  *)
OwnApiWhole == \A s \in skipped : s[1] \notin OwnClasses

(* Every class that this module exports can be constructed: it and the classes    *)
(* above it leave no pure virtual method without an implementation.               *)
OwnClassesConcrete ==
  phase = "done" => OwnClasses \subseteq wrapped /\ \A c \in OwnClasses : Unimplemented[c] = {}

(* With the driver, callbacks_list.py has a converter for each callback that the  *)
(* sockets and the nodes under the applications take, so none of these is lost.   *)
CallbacksConverted ==
  driven => \A s \in skipped : s[1] \notin {"Socket", "Node", "NetDevice", "Application"}

(* The order of the calls never asks the module for a name it does not have yet:  *)
(* the run comes to its end.                                                      *)
Finishes == <>(phase = "done")
=============================================================================
