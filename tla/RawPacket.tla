----------------------------- MODULE RawPacket -----------------------------
(***************************************************************************)
(* The raw frames of the verbs and pcap transports (common_raw_packet.h    *)
(* and .cpp, and the frames that send_udp_ibv.cpp lays out).               *)
(*                                                                         *)
(* A frame is the record of the fields that udp_from_ethernet and the      *)
(* sender touch, next to the number of bytes there are.  The addresses are *)
(* one checksum word.                                                      *)
(***************************************************************************)
EXTENDS Integers, FiniteSetsExt

\* The min_size of an ethernet frame, an IPv4 packet and a UDP packet.
EthernetMin == 14
Ipv4Min == 20
UdpMin == 8
header_length == EthernetMin + Ipv4Min + UdpMin

Ipv4Type == 2048            \* 0x0800
UdpProtocol == 17
flag_do_not_fragment == 16384
FragmentBits == 16384       \* flag_more_fragments | 0x1fff: all below 0x4000

\* What the accessors throw.
TypeError == -1
LengthError == -2

\* An Ethernet frame is padded to 60 bytes on the wire.
Padded(f) == [f EXCEPT !.bytes = Max({@, 60})]

\* The header words that make up the checksum, the checksum apart.
WordSum(f) ==
    f.version_ihl * 256 + f.total_length + f.flags_frag_off
        + f.ttl * 256 + f.protocol + f.addresses

\* "while (sum > 0xffff) sum = (sum & 0xffff) + (sum >> 16)": the sum of ten words
\* needs at most two rounds.
fold_once(sum) == (sum % 65536) + (sum \div 65536)
fold(sum) == fold_once(fold_once(sum))

update_checksum(f) == [f EXCEPT !.checksum = 65535 - fold(WordSum(f))]

\* What a router or a card asks of the header it forwards.
ChecksumValid(f) == fold(WordSum(f) + f.checksum) = 65535

is_fragment(f) == f.flags_frag_off % FragmentBits # 0
ihl_length(f) == 4 * (f.version_ihl % 16)
version(f) == f.version_ihl \div 16

\* udp_packet and its payload, of the bytes that the IPv4 packet has for it.
udp_payload(f, bytes) ==
    IF bytes < UdpMin \/ f.udp_length > bytes \/ f.udp_length < UdpMin THEN LengthError
    ELSE f.udp_length - UdpMin

payload_udp(f) ==
    LET h == ihl_length(f)
        bytes == f.bytes - EthernetMin
    IN  IF h > bytes \/ h < Ipv4Min \/ f.total_length > bytes \/ f.total_length < h
        THEN LengthError
        ELSE udp_payload(f, f.total_length - h)

\* The payload's size, or what is thrown.
udp_from_ethernet(f) ==
    CASE f.bytes < EthernetMin -> LengthError
      [] f.bytes >= EthernetMin /\ f.ethertype # Ipv4Type -> TypeError
      [] f.bytes < EthernetMin + Ipv4Min /\ f.ethertype = Ipv4Type -> LengthError
      [] OTHER -> IF version(f) # 4 \/ is_fragment(f) \/ f.protocol # UdpProtocol
                  THEN TypeError
                  ELSE payload_udp(f)

\* The frame of a slot of the sender as its constructor leaves it.
SlotFrame(max_packet_size) ==
    [bytes |-> 0, ethertype |-> Ipv4Type, version_ihl |-> 69,
     total_length |-> max_packet_size + Ipv4Min + UdpMin,
     flags_frag_off |-> flag_do_not_fragment, ttl |-> 1, protocol |-> UdpProtocol,
     addresses |-> 65000, checksum |-> 0, udp_length |-> max_packet_size + UdpMin]

\* What async_send_packets fills in for a packet of this size; sge.length is bytes.
fill_frame(f, payload_size) ==
    [update_checksum([f EXCEPT !.total_length = payload_size + UdpMin + ihl_length(f)])
        EXCEPT !.udp_length = payload_size + UdpMin,
               !.bytes = payload_size + header_length]
=============================================================================
