------------------------------- MODULE Verbs -------------------------------
(***************************************************************************)
(* How the users of ibverbs set up their objects and give them up: the     *)
(* wrappers of common_ibv.cpp, the constructors of udp_ibv_reader,         *)
(* udp_ibv_mprq_reader, udp_ibv_stream and of mcdump's capture classes,    *)
(* and the order in which C++ destroys what they hold.                     *)
(*                                                                         *)
(* A call is what it makes and what must exist when it is made.  Any call  *)
(* may fail: the wrapper throws, and the constructor is unwound.           *)
(***************************************************************************)
EXTENDS Integers, SequencesExt, FiniteSets, FiniteSetsExt

CONSTANTS Devices,      \* what query_device may say
          buffer_size,  \* asked for
          max_raw_size  \* bytes of a slot: max_size + header_length

Call(makes, needs) == [makes |-> makes, needs |-> needs]

\* The wrappers.
Bound == {"cm_id", "bound"}

rdma_event_channel_t == Call("event_channel", {})
rdma_cm_id_t == Call("cm_id", {"event_channel"})
bind_addr == Call("bound", {"cm_id"})
query_device == Call("device_attr", Bound)
exp_query_device == Call("device_attr", Bound)
ibv_comp_channel_t == Call("comp_channel", Bound)
wrap == Call("comp_channel_wrapper", {"comp_channel"})
ibv_cq_t(cq, channel) == Call(cq, Bound \cup channel)
exp_cq_t(cq, channel) == Call(cq, {"res_domain"} \cup Bound \cup channel)
ibv_pd_t == Call("pd", Bound)
ibv_qp_t(cqs) == Call("qp", {"pd"} \cup cqs)
exp_qp_t == Call("qp", Bound \cup {"pd", "rwq_ind_table", "res_domain"})
ibv_mr_t == Call("mr", {"pd", "buffer"})
modify(state, before) == Call(state, {"qp"} \cup before)
post_recv == Call("posted", {"qp", "INIT", "mr"})
create_flow(ready) == Call("flow", {"qp"} \cup ready)
ibv_exp_cq_family_v1_t == Call("cq_intf", Bound \cup {"recv_cq"})
ibv_exp_wq_t == Call("wq", Bound \cup {"pd", "recv_cq", "res_domain"})
wq_modify == Call("RDY", {"wq"})
ibv_exp_wq_family_t == Call("wq_intf", Bound \cup {"wq"})
create_rwq_ind_table == Call("rwq_ind_table", Bound \cup {"pd", "wq"})
ibv_exp_res_domain_t == Call("res_domain", Bound)
post_wr == Call("posted", {"wq_intf", "mr"})

\* Sockets, memory and handlers that the constructors make on the way.
join_socket == Call("join_socket", {})
allocate_buffer == Call("buffer", {})
enqueue_receive == Call("handler", {"recv_cq", "posted"})
join_groups == Call("joined", {"join_socket", "flow"})
bind_socket == Call("bound_socket", {"socket"})
interface_mac == Call("source_mac", {})

\* With completion events there is a channel, wrapped for the event loop.
Channel(channel) == IF channel THEN <<ibv_comp_channel_t, wrap>> ELSE <<>>
On(channel) == IF channel THEN {"comp_channel"} ELSE {}

\* udp_ibv_reader_core: make_cm_id, the protection domain, the event channel.
reader_core(channel) ==
    <<join_socket, rdma_event_channel_t, rdma_cm_id_t, bind_addr, ibv_pd_t>>
        \o Channel(channel)

udp_ibv_reader(channel) ==
    reader_core(channel)
        \o <<query_device, ibv_cq_t("recv_cq", On(channel)), ibv_cq_t("send_cq", {}),
             ibv_qp_t({"send_cq", "recv_cq"}), modify("INIT", {}), create_flow({"INIT"}),
             allocate_buffer, ibv_mr_t, post_recv, enqueue_receive,
             modify("RTR", {"INIT"}), join_groups>>

udp_ibv_mprq_reader(channel) ==
    reader_core(channel)
        \o <<exp_query_device, ibv_exp_res_domain_t, exp_cq_t("recv_cq", On(channel)),
             ibv_exp_cq_family_v1_t, ibv_exp_wq_t, ibv_exp_wq_family_t,
             create_rwq_ind_table, exp_qp_t, wq_modify, allocate_buffer, ibv_mr_t,
             post_wr, create_flow({"RDY"}), enqueue_receive, join_groups>>

udp_ibv_stream(channel) ==
    <<Call("socket", {}), rdma_event_channel_t, rdma_cm_id_t, bind_socket, bind_addr,
      ibv_pd_t>>
        \o Channel(channel)
        \o <<ibv_cq_t("send_cq", On(channel)), ibv_cq_t("recv_cq", {}),
             ibv_qp_t({"send_cq", "recv_cq"}), modify("INIT", {}),
             modify("RTR", {"INIT"}), modify("RTS", {"RTR"}), allocate_buffer, ibv_mr_t,
             interface_mac>>

\* mcdump: the base, then either capture class; chunks are made and posted by run.
capture_base == <<rdma_event_channel_t, rdma_cm_id_t, bind_addr, ibv_pd_t, query_device>>

capture == capture_base
    \o <<ibv_cq_t("recv_cq", {}), ibv_qp_t({"recv_cq"}), modify("INIT", {})>>

capture_mprq == capture_base
    \o <<ibv_exp_res_domain_t, exp_cq_t("recv_cq", {}), ibv_exp_cq_family_v1_t,
         ibv_exp_wq_t, ibv_exp_wq_family_t, create_rwq_ind_table, exp_qp_t, wq_modify>>

\* The order of the members in each class; they are destroyed from the last one.
core_members == <<"join_socket", "event_channel", "cm_id", "pd", "comp_channel",
                  "comp_channel_wrapper", "flow", "recv_cq">>

Members(class) ==
    CASE class = "ibv" -> core_members \o <<"send_cq", "qp", "mr", "buffer">>
      [] class = "mprq" -> core_members \o <<"res_domain", "wq", "rwq_ind_table",
                              "cq_intf", "wq_intf", "qp", "mr", "buffer">>
      [] class = "ibv_send" -> <<"socket", "buffer", "event_channel", "cm_id", "pd",
                                 "comp_channel", "comp_channel_wrapper", "send_cq",
                                 "recv_cq", "qp", "mr">>
      [] class = "capture" -> <<"event_channel", "cm_id", "pd", "recv_cq", "qp">>
      [] class = "capture_mprq" -> <<"event_channel", "cm_id", "pd", "res_domain",
                                     "recv_cq", "cq_intf", "wq", "wq_intf",
                                     "rwq_ind_table", "qp">>

Constructor(class, channel) ==
    CASE class = "ibv" -> udp_ibv_reader(channel)
      [] class = "mprq" -> udp_ibv_mprq_reader(channel)
      [] class = "ibv_send" -> udp_ibv_stream(channel)
      [] class = "capture" -> capture
      [] class = "capture_mprq" -> capture_mprq

-----------------------------------------------------------------------------
(* Sizes *)

Throws == 0

\* How many packets a udp_ibv_reader can hold.
compute_n_slots(attr) ==
    LET bytes == Min({buffer_size, attr.max_mr_size})
        hw_slots == Min({attr.max_qp_wr, attr.max_cqe})
    IN  IF attr.max_mr_size < max_raw_size \/ hw_slots = 0 THEN Throws
        ELSE Min({hw_slots, Max({1, bytes \div max_raw_size})})

clamp(x, low, high) == Min({Max({x, low}), high})

\* Work requests of a udp_ibv_mprq_reader; Throws: not_supported.
n_wqe(attr) ==
    LET stride == clamp(6, attr.min_stride, attr.max_stride)
        strides_log == clamp(20 - stride, attr.min_strides, attr.max_strides)
        bytes == Max({buffer_size, 2 * 2^(stride + strides_log)})
        strides == Min({bytes \div 2^stride, attr.max_cqe})
        wqe == Min({strides \div 2^strides_log, attr.max_qp_wr})
    IN  IF wqe >= 2 THEN wqe ELSE Throws

\* Slots of a udp_ibv_stream.
calc_n_slots == Max({1, buffer_size \div max_raw_size})

-----------------------------------------------------------------------------
(* Building and releasing *)

VARIABLES
    build,      \* the constructor that runs: its class, how far it is, what it holds
    device,     \* what the card can do
    events      \* comp_vector >= 0: completion events, not polling

verbs_vars == <<build, device, events>>

NewBuild(class) ==
    [class |-> class, step |-> 0, made |-> {}, state |-> "building", early |-> {}]

VerbsInit(class) ==
    /\ build = NewBuild(class)
    /\ device \in Devices /\ events \in BOOLEAN

Steps == Constructor(build.class, events)

\* The call that comes next is made.
Make ==
    /\ build.state = "building" /\ build.step < Len(Steps)
    /\ build' = [build EXCEPT !.step = @ + 1, !.made = @ \cup {Steps[build.step + 1].makes},
                              !.state = IF build.step + 1 = Len(Steps) THEN "built" ELSE @]
    /\ UNCHANGED <<device, events>>

\* Objects that are there when something they were made from is destroyed.
Needs(class, name) ==
    UNION {c.needs : c \in {d \in Range(Constructor(class, events)) : d.makes = name}}

Dangling(class, made) ==
    LET members == Members(class)
        Rank(m) == CHOOSE i \in DOMAIN members : members[i] = m
        objects == made \cap Range(members)
    IN  {p \in objects \X objects :
            /\ p[1] \in Needs(class, p[2])
            /\ Rank(p[1]) > Rank(p[2])}

\* The members go, the last one first.  A handler that a constructor has posted is
\* still there when it fails later.
Release(b) ==
    [b EXCEPT !.state = "released", !.made = {},
              !.early = Dangling(b.class, b.made)
                        \cup (IF b.state = "building" /\ "handler" \in b.made
                                THEN {<<"reader", "handler">>} ELSE {})]

\* What the device answered is not enough, and the constructor throws before this call.
Refused(class, call) ==
    CASE class = "ibv" -> call.makes = "recv_cq" /\ compute_n_slots(device) = Throws
      [] class = "mprq" -> \/ call.makes = "res_domain" /\ ~device.mprq
                           \/ call.makes = "recv_cq" /\ n_wqe(device) = Throws
      [] OTHER -> FALSE
=============================================================================
