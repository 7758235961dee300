-------------------------- MODULE MsgdmaDescriptor --------------------------
(***************************************************************************)
(* Construction of mSGDMA descriptors: the standard and extended formats,  *)
(* for the dispatcher and for the prefetcher, of drivers/src/altera_msgdma *)
(* .c.  A request that exceeds what the hardware was built with gives      *)
(* -EINVAL and no descriptor.                                              *)
(***************************************************************************)
EXTENDS Naturals

CONSTANTS
  max_byte, max_stride,     \* limits of the hardware, from the instance macros
  enhanced_features         \* 1 when the hardware takes extended descriptors

ASSUME DescriptorAssumption ==
  max_byte \in Nat /\ max_stride \in Nat /\ enhanced_features \in {0, 1}

NULL == 0

\* The bits of the control word that the drivers set or test.
ControlBits == {"GO", "OWN_BY_HW", "TRANSFER_COMPLETE_IRQ"}

\* The two formats of a descriptor, within the limits of the hardware.
StandardDescriptor ==
  [read : Nat, write : Nat, length : 0 .. max_byte, control : SUBSET ControlBits]
ExtendedDescriptor ==
  [read : Nat, write : Nat, length : 0 .. max_byte, control : SUBSET ControlBits,
   read_burst : Nat, write_burst : Nat,
   read_stride : 0 .. max_stride, write_stride : 0 .. max_stride]

\* What the program may ask for.
TransferRequest ==
  [read : Nat, write : Nat, length : Nat, control : SUBSET ControlBits,
   read_burst : Nat, write_burst : Nat, read_stride : Nat, write_stride : Nat]

\* (TooLongBug: the limit itself is refused and what exceeds it is not.)
TooLongBug(length) == length = max_byte
TooLong(length) == max_byte < length

TooWide(read_stride, write_stride) ==
  max_stride < read_stride \/ max_stride < write_stride

\* A request names both ends, the length, the control bits and, for the
\* extended format, burst counts and strides.  The result is the set of the
\* one descriptor made, or the empty set for -EINVAL.
construct_standard_descriptor(r) ==
  IF TooLong(r.length) \/ enhanced_features # 0 THEN {}
  ELSE {[read |-> r.read, write |-> r.write, length |-> r.length,
         control |-> r.control \cup {"GO"}]}

construct_extended_descriptor(r) ==
  IF TooLong(r.length) \/ TooWide(r.read_stride, r.write_stride) \/ enhanced_features # 1
  THEN {} ELSE {[r EXCEPT !.control = @ \cup {"GO"}]}

\* The three directions leave out the end that is a stream.
st_to_mm(r) == [r EXCEPT !.read = NULL, !.read_burst = 0, !.read_stride = 0]
mm_to_st(r) == [r EXCEPT !.write = NULL, !.write_burst = 0, !.write_stride = 0]
mm_to_mm(r) == r

\* What the program can make of a request with this hardware.
Construct(r) ==
  UNION {construct_standard_descriptor(d) \cup construct_extended_descriptor(d) :
           d \in {st_to_mm(r), mm_to_st(r), mm_to_mm(r)}}

PrefetcherDescriptor(Address) ==
  [next : Address, control : SUBSET ControlBits, length : 0 .. max_byte]

\* Descriptors for the prefetcher point to themselves and belong to software.
AsPrefetcher(self, d) ==
  [next |-> self, control |-> (d.control \ {"OWN_BY_HW"}) \cup {"GO"}, length |-> d.length]

construct_prefetcher_standard_descriptor(self, r) ==
  {AsPrefetcher(self, d) : d \in construct_standard_descriptor(r)}
construct_prefetcher_extended_descriptor(self, r) ==
  {AsPrefetcher(self, d) : d \in construct_extended_descriptor(r)}

ConstructPrefetcher(self, r) ==
  UNION {construct_prefetcher_standard_descriptor(self, d)
           \cup construct_prefetcher_extended_descriptor(self, d) :
             d \in {st_to_mm(r), mm_to_st(r), mm_to_mm(r)}}
=============================================================================
