------------------------------ MODULE MCSdDevice ------------------------------
(* SdDevice with two sectors of two bytes. *)
EXTENDS SdDevice, SdCrc

MCSectors == 0 .. 1
MCErased == <<0, 0>>
MCBlocks == {<<255, 1>>}
Noise == <<1, 128>>             \* a burst of error bits across the bytes
MCDamaged ==
    [b \in MCBlocks \cup {MCErased} |-> [i \in DOMAIN b |-> b[i] ^^ Noise[i]]]
FrameTable == [cmd \in Commands |-> [arg \in Args |-> FrameCrc(cmd, arg)]]
FrameChecksumTable ==
    [cmd \in Commands |-> [arg \in Args |-> CommandChecksum(cmd, arg)]]
BlockCrcTable == [b \in OnTheWire |-> CRC_CCITT(b)]
ChecksumTable == [b \in OnTheWire |-> BlockChecksum(b)]
\* Names of their own, so that TLC computes each table once.
MCFrame == FrameTable
MCFrameChecksum == FrameChecksumTable
MCBlockCrc == BlockCrcTable
MCChecksum == ChecksumTable
MCCards == {[type |-> "SD1", obeys |-> FALSE], [type |-> "SD2", obeys |-> TRUE],
            [type |-> "SDHC", obeys |-> TRUE]}
MCStarts == {ClockRange - 2}
\* No step depends on the last call: states are told apart without it.
MCView == <<drv, card, mounted>>
=============================================================================
