-------------------------------- MODULE Token --------------------------------
(***************************************************************************)
(* The token of a stream (LibCarla/source/carla/streaming/low_level/       *)
(* Token.h): what a client needs to subscribe to it, packed into the bytes *)
(* of one struct.                                                          *)
(*                                                                         *)
(* The address is a union.  Its memory is counted in words of four bytes:  *)
(* an IPv4 address is one word, an IPv6 address is four.  What is not      *)
(* written keeps what the memory held before, junk.                        *)
(***************************************************************************)
EXTENDS Naturals, Sequences

CONSTANT Word   \* the values of four bytes of an address

Address == [1..1 -> Word] \cup [1..4 -> Word]

Memory == [1..4 -> Word]

Endpoint == [protocol : {"tcp", "udp"}, address : Address, port : Nat]

token == [stream_id : Nat, port : Nat,
          protocol : {"not_set", "tcp", "udp"},
          address_type : {"not_set", "ip_v4", "ip_v6"},
          address : Memory]

IsV4(address) == Len(address) = 1

(* Only the four bytes of the address are written over. *)
FillV4(address, junk) == [junk EXCEPT ![1] = address[1]]

\* Mutated: both kinds of address are stored as the longer one.
StoresAsV6(address, junk) ==
    [type |-> "ip_v6",
     memory |-> IF IsV4(address) THEN FillV4(address, junk) ELSE address]

set_address(address, junk) ==
    [type |-> IF IsV4(address) THEN "ip_v4" ELSE "ip_v6",
     memory |-> IF IsV4(address) THEN FillV4(address, junk) ELSE address]

(* The constructor that Dispatcher uses. *)
token_type(stream_id, endpoint, junk) ==
    LET stored == set_address(endpoint.address, junk) IN
    [stream_id |-> stream_id, port |-> endpoint.port,
     protocol |-> endpoint.protocol,
     address_type |-> stored.type, address |-> stored.memory]

(* token_type(): nothing but the two tags is initialised. *)
DefaultToken(stream_id, port, junk) ==
    [stream_id |-> stream_id, port |-> port,
     protocol |-> "not_set", address_type |-> "not_set", address |-> junk]

is_valid(t) == t.protocol # "not_set" /\ t.address_type # "not_set"

protocol_is_tcp(t) == t.protocol = "tcp"

(* Whatever is not of version 4 is taken for version 6. *)
get_address(t) ==
    IF t.address_type = "ip_v4" THEN SubSeq(t.address, 1, 1) ELSE t.address

(* What get_endpoint asserts. *)
Convertible(t, protocol) == is_valid(t) /\ t.protocol = protocol

(* Neither an endpoint nor one of the values of a token. *)
NoEndpoint == [protocol |-> "not_set", address |-> <<>>, port |-> 0]

(* NoEndpoint stands for an assertion that failed. *)
get_endpoint(t, protocol) ==
    IF Convertible(t, protocol)
      THEN [protocol |-> protocol, address |-> get_address(t), port |-> t.port]
      ELSE NoEndpoint

to_tcp_endpoint(t) == get_endpoint(t, "tcp")
=============================================================================
