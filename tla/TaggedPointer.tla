---------------------------- MODULE TaggedPointer ----------------------------
(***************************************************************************)
(* TaggedPointer: a device ID, an allocation ID and an offset packed into  *)
(* one pointer, the offset in the low bits.  The limits are the powers of  *)
(* two 2^kDeviceIDBits, 2^kAllocationIDBits and 2^kOffsetBits.             *)
(***************************************************************************)
EXTENDS Naturals

CONSTANTS DeviceIDLimit, AllocationIDLimit, OffsetLimit

ASSUME LimitsAssumption ==
    /\ DeviceIDLimit \in Nat \ {0}
    /\ AllocationIDLimit \in Nat \ {0, 1}
    /\ OffsetLimit \in Nat \ {0}

Pack(device_id, allocation_id, offset) ==
    (device_id * AllocationIDLimit + allocation_id) * OffsetLimit + offset

(* Mutant: the device ID is not shifted past the allocation ID. *)
UnpackShiftedShort(ptr) ==
    [device_id     |-> (ptr \div OffsetLimit) % DeviceIDLimit,
     allocation_id |-> (ptr \div OffsetLimit) % AllocationIDLimit,
     offset        |-> ptr % OffsetLimit]

Unpack(ptr) ==
    [device_id     |-> (ptr \div (AllocationIDLimit * OffsetLimit))
                           % DeviceIDLimit,
     allocation_id |-> (ptr \div OffsetLimit) % AllocationIDLimit,
     offset        |-> ptr % OffsetLimit]
=============================================================================
