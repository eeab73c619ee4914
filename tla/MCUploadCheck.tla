--------------------------- MODULE MCUploadCheck ---------------------------
(* Images put together the way mkimage and fwtool do, with one to four       *)
(* records, and the same ones truncated, extended or damaged.                *)
EXTENDS UploadCheck

MCBlank == [kind |-> "data", val |-> 0]
D(v)    == [kind |-> "data", val |-> v]

Header(data) == [kind |-> "header", mips_linux_kernel |-> TRUE,
                 data_size |-> Len(data), data_crc |-> data]

Uimage(data) == <<Header(data)>> \o data

\* fwtool appends data and a trailer with the checksum of all that is before it.
Append2(img, data, type) ==
  img \o data \o <<[kind |-> "trailer", type |-> type,
                    record_size |-> Len(data) + 1, crc |-> img \o data]>>

Meta(v, o) == <<[kind |-> "fwheader", version |-> v], [kind |-> "json", ours |-> o]>>

Signed(img)  == Append2(img, <<D(9)>>, "signature")
Kernel       == Uimage(<<D(1), D(2)>>)
Ours         == Append2(Kernel, Meta(0, TRUE), "info")
Others       == Append2(Kernel, Meta(0, FALSE), "info")
NewVersion   == Append2(Kernel, Meta(1, TRUE), "info")
NoText       == Append2(Kernel, <<[kind |-> "fwheader", version |-> 0]>>, "info")
Damaged      == [Ours EXCEPT ![3] = D(7)]
\* A kernel in whose data something looks like a trailer.
Decoy        == Uimage(<<D(1), [kind |-> "trailer", type |-> "info", record_size |-> 1,
                                crc |-> <<>>], D(2)>>)
Recut        == [Ours EXCEPT ![Len(Ours)].record_size = 9]

Whole == {Kernel, Ours, Others, NewVersion, NoText, Damaged, Recut,
          Signed(Ours), Signed(Signed(Ours)), Signed(Signed(Signed(Ours))),
          Signed(Kernel), <<D(5), D(5)>>, <<D(1)>>}

Cut(u)      == {SubSeq(u, 1, n) : n \in 1 .. Len(u)}
Padded(u)   == Append(u, D(0))
Firmware    == Whole \cup UNION {Cut(u) : u \in {Ours, Signed(Ours), Decoy}} \cup {Padded(Ours)}

EnvData == <<D(1), D(2)>>

MCUploads ==
  [firmware    |-> Firmware,
   eeprom      |-> {<<[kind |-> "eeprom"], D(1)>>, <<D(1), D(2)>>, <<[kind |-> "eeprom"], [kind |-> "eeprom"]>>},
   environment |-> {<<[kind |-> "envcrc", crc |-> EnvData]>> \o EnvData \o <<D(8)>>,
                    <<[kind |-> "envcrc", crc |-> EnvData], D(1), D(1), D(8)>>},
   uboot       |-> {<<D(1), [kind |-> "mt7621"], D(1)>>, <<D(1), D(1), D(1)>>, <<D(1), D(2), D(1)>>},
   factory     |-> {<<D(1), D(1)>>, <<D(1), D(2)>>}]

RamUploads == [ram |-> UNION {Cut(u) : u \in {Kernel, Uimage(<<D(3)>>)}}]
=============================================================================
