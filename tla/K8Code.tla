-------------------------------- MODULE K8Code --------------------------------
(***************************************************************************)
(* The AMD K8: devices/amd/k8.cc.  k8_cpu() describes a core, k8_pci() the *)
(* four PCI functions of a northbridge.  What most of it asks for is the   *)
(* revision: k8_cpu() makes a field of it, and k8_pci() an alias of that   *)
(* field of the first CPU.                                                 *)
(***************************************************************************)
EXTENDS CpuCode

RevKeys == [unknown |-> 0, rev_e |-> 101, rev_f |-> 102]   \* 'e' and 'f'
OfCpu   == <<"$cpu", "k8_rev">>
OfNode  == <<"$k8", "k8_rev">>
RevE(path) == Eq(path, "rev_e")
RevF(path) == Eq(path, "rev_f")

k8_types == <<T(<<"fid_t", "vid_t">>)>>

k8_cpuid == <<Call("CPUID_SCOPE", "cpuid"), Close>>

-----------------------------------------------------------------------------
k8_msr ==
  <<Call("MSR_SCOPE", "msr")>>
  \o Run(<<"k8_msr_system", "k8_msr_memory", "k8_msr_perf_ctr",
           "k8_msr_power_mgmt", "k8_msr_io_trap", "k8_msr_smm",
           "k8_msr_mc_global", "k8_msr_data_cache", "k8_msr_instr_cache",
           "k8_msr_bus", "k8_msr_ls">>)
  \o <<Open("nb"), Close, Close, Close>>

k8_msr_system ==
  <<Open("EFER"),
    R(<<"%EFER">>),
    F({"enabledisable_t", "yesno_t"}, {<<"%EFER">>},
      <<"SYSCALL", "LME", "LMA", "NXE", "LMSLE", "FFXSR">>),
    Close,
    Open("SYSCFG"),
    R(<<"%SYSCFG">>),
    F({"enabledisable_t", "int_t"}, {<<"%SYSCFG">>},
      <<"SysAckLimit", "SysVicLimit", "SetDirtyEnE", "SetDirtyEnS",
        "SetDirtyEnO">>),
    When(RevE(OfCpu), <<F({"enabledisable_t"}, {<<"%SYSCFG">>}, <<"ClVicBlkEn">>)>>),
    F({"disableenable_t", "enabledisable_t"}, {<<"%SYSCFG">>},
      <<"ChxToDirtyDis", "SysUcLockEn", "MtrrFixDramEn", "MtrrFixDramModEn",
        "MtrrVarDramEn", "MtrrTom2En">>),
    When(RevF(OfCpu), <<F({"yesno_t"}, {<<"%SYSCFG">>}, <<"Tom2ForceMemTypeWB">>)>>),
    Close,
    Open("HWCR"),
    T(<<"fid_t">>),
    R(<<"%HWCR">>),
    F({"disableenable_t", "enabledisable_t", "fid_t", "yesno_t"}, {<<"%HWCR">>},
      <<"SMMLOCK", "SLOWFENCE", "TLBCACHEDIS", "INVD_WBINVD", "FFDIS",
        "DISLOCK", "IGNNE_EM", "HLTXSPCYCEN", "SMISPCYCDIS", "RSMSPCYCDIS",
        "SSEDIS", "WRAP32DIS", "MCi_STATUS_WREN", "START_FID">>),
    Close,
    Open("NB_CFG"),
    R(<<"%NB_CFG">>),
    Rev(OfCpu,
     [rev_e |-> <<F({"enabledisable_t"}, {<<"%NB_CFG">>}, <<"EnRefUseFreeBuf">>)>>,
      rev_f |-> <<F({"disableenable_t"}, {<<"%NB_CFG">>}, <<"DisRefUseFreeBuf">>)>>]),
    F({"disableenable_t", "yesno_t"}, {<<"%NB_CFG">>},
      <<"DisCohLdtCfg", "DisDatMask", "DisThmlPfMonSmiIntr",
        "DisUsSysMgtRqToNLdt", "InitApicIdCpuIdLo">>),
    Close,
    Open("id"),
    R(<<"%MANID">>),
    F({"int_t"}, {<<"%MANID">>}, <<"MinorRev", "MajorRev", "ReticleSite">>),
    Close,
    Open("HTC"),
    R(<<"%HTC">>),
    F({"enabledisable_t", "yesno_t"}, {<<"%HTC">>},
      <<"HtcEn", "HtcSbcEn", "HtcAct", "HtcActSts">>),
    Close,
    Open("thermal_control"),
    R(<<"%ThermalControl">>),
    F({"enabledisable_t"}, {<<"%ThermalControl">>},
      <<"StcSbcTmpHiEn", "StcSbcTmpLoEn", "StcApcTmpHiEn", "StcApcTmpLoEn">>),
    When(RevF(OfCpu), <<F({"enabledisable_t"}, {<<"%ThermalControl">>}, <<"StcHtcEn">>)>>),
    F({"yesno_t"}, {<<"%ThermalControl">>},
      <<"StcTmpHiSts", "StcTmpLoSts", "StcTmpLmt", "StcHystLmt">>),
    Close>>

k8_msr_memory ==
  <<R(<<"%TOP_MEM", "%TOP_MEM2">>),
    F({"addr64_t"}, {<<"%TOP_MEM">>, <<"%TOP_MEM2">>}, <<"TOM", "TOM2">>)>>
  \o Repeat(2,
   <<OpenNext("iorr"),
     R(<<"%IORRBase">>),
     F({"addr64_t", "yesno_t"}, {<<"%IORRBase">>}, <<"WrDram", "RdDram", "Base">>),
     R(<<"%IORRMask">>),
     F({"addr64_t", "enabledisable_t"}, {<<"%IORRMask">>}, <<"V", "Mask">>),
     Close>>)
  \o
  <<Open("STAR"),
    R(<<"%STAR">>),
    F({"addr32_t", "hex16_t"}, {<<"%STAR">>},
      <<"Target", "SysCallSel", "SysRetSel">>),
    Close,
    F({"addr64_t"}, {Anon}, <<"LSTAR", "CSTAR">>),
    R(<<"%SF_MASK">>),
    F({"addr64_t", "hex32_t"}, {<<"%SF_MASK">>, Anon},
      <<"SF_MASK", "FS_BASE", "GS_BASE", "KernelGSBase">>)>>

(* Of the events one with and one without a mask of its own.  The first is *)
(* UINT_MASK in the source, the other UNIT_MASK.                           *)
EventKeys == [dispatched_fpu_ops |-> 0, cycles_with_no_fpu_ops_retired |-> 1]
k8_msr_perf_ctr ==
  Repeat(4,
   <<OpenNext("perf_ctr"),
     R(<<"%PerfEvtSel">>),
     V({}, {<<"%PerfEvtSel">>}, "EVENT_SELECT", EventKeys),
     If(Eq(<<"EVENT_SELECT">>, "dispatched_fpu_ops"),
      <<F({}, {<<"%PerfEvtSel">>}, <<"UINT_MASK">>)>>,
      <<F({"bitmask_t"}, {<<"%PerfEvtSel">>}, <<"UNIT_MASK">>)>>),
     F({"enabledisable_t", "yesno_t"}, {<<"%PerfEvtSel">>},
       <<"USR", "OS", "E", "PC", "INT", "EN">>),
     V({"yesno_t"}, {<<"%PerfEvtSel">>}, "INV", YesNo),
     When(Or(EqN(<<"INV">>, 0), EqN(<<"INV">>, 1)),
      <<F({}, {<<"%PerfEvtSel">>}, <<"CNT_MASK">>)>>),
     R(<<"%PerfCtr">>),
     F({"int_t"}, {<<"%PerfCtr">>}, <<"CTR">>),
     Close>>)

k8_msr_power_mgmt ==
  <<Open("power_mgmt"),
    R(<<"%FIDVID_CTL">>),
    F({"fid_t"}, {<<"%FIDVID_CTL">>}, <<"NewFID">>),
    When(Or(RevE(OfCpu), RevF(OfCpu)),
     <<F({"vid_t"}, {<<"%FIDVID_CTL">>}, <<"NewVID">>)>>),
    F({"yesno_t"}, {<<"%FIDVID_CTL">>}, <<"InitFidVid", "StpGntTOCnt">>),
    R(<<"%FIDVID_STATUS">>),
    F({"fid_t", "yesno_t"}, {<<"%FIDVID_STATUS">>},
      <<"CurrFID", "StartFID", "MaxFID", "FidVidPending">>),
    Rev(OfCpu,
     [rev_e |->
        <<F({"vid_t"}, {<<"%FIDVID_STATUS">>},
            <<"MaxRampVID", "CurrVID", "StartVID", "MaxVID", "MinVID">>)>>,
      rev_f |->
        <<F({"vid_t", "yesno_t"}, {<<"%FIDVID_STATUS">>},
            <<"MaxRampVID", "CurrVID", "StartVID", "MaxVID", "PstateStep",
              "AltVidOffset", "IntPstateSup">>)>>]),
    Close,
    Open("mc_ctl_mask")>>
  \o Repeat(5,
   <<RNext("%MC_CTL_MASK"),
     FNext({"bitmask_t"}, {<<"%MC_CTL_MASK", "[-1]">>}, "MC_CTL_MASK")>>)
  \o <<Close>>

TrapAliases(i) ==
  <<Alias("SmiSts_" \o ToString(i), <<"trap", Subscript(i), "SmiSts">>),
    Alias("SmiEn_" \o ToString(i), <<"trap", Subscript(i), "SmiEn">>)>>
k8_msr_io_trap ==
  <<Open("io_trap"),
    R(<<"%IOTRAP_CTL">>)>>
  \o Repeat(4,
   <<OpenNext("trap"),
     R(<<"%IOTRAP_ADDR">>),
     F({"addr32_t", "enabledisable_t", "yesno_t"},
       {<<"%IOTRAP_ADDR">>, Up("%IOTRAP_CTL")},
       <<"SmiAddr", "SmiMask", "ConfigSmi", "SmiOnWrEn", "SmiOnRdEn",
         "SmiSts", "SmiEn">>),
     Close>>)
  \o FlattenSeq([i \in 1..4 |-> TrapAliases(i - 1)])
  \o
  <<F({"enabledisable_t"}, {<<"%IOTRAP_CTL">>},
      <<"IoTrapCtlRsmSpcEn", "IoTrapCtlSmiSpcEn", "IoTrapEn">>),
    Close,
    Open("interrupt_pending_msg"),
    R(<<"%InterruptPendingMessage">>),
    F({"addr16_t", "disableenable_t"}, {<<"%InterruptPendingMessage">>},
      <<"IOMsgAddr", "IntrPndMsgDis", "IntrPndMsg">>),
    V({}, {<<"%InterruptPendingMessage">>}, "IORd", [io_read |-> 1, io_write |-> 0]),
    When(Eq(<<"IORd">>, "io_write"),
     <<F({"hex8_t"}, {<<"%InterruptPendingMessage">>}, <<"IOMsgData">>)>>),
    When(RevF(OfCpu),
     <<F({"yesno_t"}, {<<"%InterruptPendingMessage">>},
         <<"SmiOnCmpHalt", "C1eOnCmpHalt">>)>>),
    Close>>

k8_msr_smm ==
  <<Open("smm"),
    R(<<"%SMM_BASE">>),
    F({"addr32_t"}, {<<"%SMM_BASE">>}, <<"SMM_BASE">>),
    R(<<"%SMM_ADDR">>),
    F({"addr64_t"}, {<<"%SMM_ADDR">>}, <<"ADDR">>),
    R(<<"%SMM_MASK">>),
    F({"addr64_t", "enabledisable_t", "mtrr_type_t", "yesno_t"}, {<<"%SMM_MASK">>},
      <<"AValid", "TValid", "AClose", "TClose", "AMTypteIcWc", "TMTypeIoWc",
        "AMTypeDram", "TMTypeDram", "MASK">>),
    Close,
    When(RevF(OfCpu),
     <<Open("vm"),
       R(<<"%VM_CR">>),
       F({"addr64_t", "disableenable_t", "yesno_t"}, {<<"%VM_CR">>, Anon},
         <<"dpd", "r_init", "dis_a20m", "LOCK", "SVME_DISABLE", "VM_HSAVE_PA">>),
       Close>>)>>

-----------------------------------------------------------------------------
(* The banks of the machine check: what kind of error the status tells of  *)
(* decides which fields there are, and those are asked for the address.    *)
LevelKeys == [level_0 |-> 0, level_1 |-> 1, level_2 |-> 2, generic |-> 3]
TransactionKeys ==
  [generic_error |-> 0, generic_read |-> 1, generic_write |-> 2, data_read |-> 3,
   data_write |-> 4, instruction_fetch |-> 5, prefetch |-> 6, evict |-> 7,
   snoop |-> 8]

BusError    == Test(<<"ERR_CODE">>, 2048)
MemoryError == Test(<<"ERR_CODE">>, 256)
TlbError    == Test(<<"ERR_CODE">>, 16)
ErrorCode(status) ==
  LET Level       == V({}, {status}, "ERR_CODE_CacheLevel", LevelKeys)
      Transaction == V({}, {status}, "ERR_CODE_MemoryTransactionType", TransactionKeys)
  IN <<V({"hex16_t"}, {status}, "ERR_CODE", NoKeys),
       If(BusError,
        <<Level, F({}, {status}, <<"ERR_CODE_MemoryOrIO">>), Transaction,
          F({"yesno_t"}, {status},
            <<"ERR_CODE_Timeout", "ERR_CODE_ParticipationProcessor">>)>>,
        <<If(MemoryError,
           <<Level, F({}, {status}, <<"ERR_CODE_TransactionType">>), Transaction>>,
           <<When(TlbError,
              <<Level, F({}, {status}, <<"ERR_CODE_TransactionType">>)>>)>>)>>)>>
ErrorStatus(status) ==
  <<F({"hex8_t", "yesno_t"}, {status}, <<"SCRUB", "UECC", "CECC", "SYND", "PCC">>),
    V({"yesno_t"}, {status}, "ADDRV", YesNo),
    F({"yesno_t"}, {status}, <<"MISCV", "EN">>),
    V({"yesno_t"}, {status}, "UC", YesNo),
    F({"yesno_t"}, {status}, <<"OVER", "VAL">>)>>
ErrorAddress(type, reg) == <<F({type}, {reg}, <<"Address">>)>>

k8_msr_mc_global ==
  <<Open("mc"),
    Open("global"),
    R(<<"%MCG_CAP", "%MCG_STATUS", "%MCG_CTL">>),
    F({"enabledisable_t", "yesno_t"},
      {<<"%MCG_CAP">>, <<"%MCG_STATUS">>, <<"%MCG_CTL">>},
      <<"Count", "MCG_CTL_P", "RIPV", "EIPV", "MCIP", "DCE", "ICE", "BUE",
        "LSE", "NBE">>),
    Close>>

ArrayKeys == [phys_array |-> 0, virt_array |-> 1]
k8_msr_data_cache ==
  <<Open("data_cache"),
    R(<<"%MC0_CTL", "%MC0_STATUS", "%MC0_ADDR">>),
    F({"yesno_t"}, {<<"%MC0_CTL">>},
      <<"ECCI", "ECCM", "DECC", "DMTP", "DSTP", "L1TP", "L2TP">>)>>
  \o ErrorCode(<<"%MC0_STATUS">>)
  \o <<V({}, {<<"%MC0_STATUS">>}, "EXT_ERR_CODE", ArrayKeys)>>
  \o ErrorStatus(<<"%MC0_STATUS">>) \o
  <<When(EqN(<<"ADDRV">>, 1),
     <<If(BusError, ErrorAddress("addr32_t", <<"%MC0_ADDR">>),
        <<If(MemoryError,
           <<If(Eq(<<"ERR_CODE_CacheLevel">>, "level_2"),
              ErrorAddress("addr32_t", <<"%MC0_ADDR">>),
              <<When(EqAny(<<"ERR_CODE_MemoryTransactionType">>,
                       <<"generic_error", "data_read", "data_write", "evict",
                         "snoop">>),
                 ErrorAddress("hex_t", <<"%MC0_ADDR">>))>>)>>,
           <<When(TlbError, ErrorAddress("hex_t", <<"%MC0_ADDR">>))>>)>>)>>),
    Close>>

k8_msr_instr_cache ==
  <<Open("instr_cache"),
    R(<<"%MC1_CTL", "%MC1_STATUS", "%MC1_ADDR">>),
    F({"yesno_t"}, {<<"%MC1_CTL">>},
      <<"ECCI", "ECCM", "IDP", "IMTP", "ISTP", "L1TP", "L2TP", "RDDE">>)>>
  \o ErrorCode(<<"%MC1_STATUS">>)
  \o <<V({}, {<<"%MC1_STATUS">>}, "EXT_ERR_CODE", ArrayKeys)>>
  \o ErrorStatus(<<"%MC1_STATUS">>) \o
  <<When(EqN(<<"ADDRV">>, 1),
     <<If(BusError, ErrorAddress("addr32_t", <<"%MC1_ADDR">>),
        <<If(MemoryError,
           <<If(Eq(<<"ERR_CODE_CacheLevel">>, "level_2"),
              ErrorAddress("addr32_t", <<"%MC1_ADDR">>),
              <<When(EqN(<<"UC">>, 1), ErrorAddress("hex_t", <<"%MC1_ADDR">>))>>)>>,
           <<When(TlbError, ErrorAddress("hex_t", <<"%MC1_ADDR">>))>>)>>)>>),
    Close>>

k8_msr_bus ==
  <<Open("bus"),
    R(<<"%MC2_CTL", "%MC2_STATUS", "%MC2_ADDR">>),
    F({"yesno_t"}, {<<"%MC2_CTL">>},
      <<"S_RDE_HP", "S_RED_TLB", "S_RDE_ALL", "S_ECC1_TLB", "S_ECC1_HP",
        "S_ECCM_TLB", "S_ECCM_HP", "L2T_PAR_ICDC", "L2T_PAR_TLB",
        "L2T_PAR_SNP", "L2T_PAR_CPB", "L2T_PAR_SCR", "L2D_ECC1_TLB",
        "L2D_ECC1_SNP", "L2D_ECC1_CPB", "L2D_ECCM_TLB", "L2D_ECCM_SNP",
        "L2D_ECCM_CPB", "L2T_ECC1_SCR", "L2T_ECCM_SCR">>)>>
  \o ErrorCode(<<"%MC2_STATUS">>)
  \o <<V({}, {<<"%MC2_STATUS">>}, "EXT_ERR_CODE",
         [bus_or_cache_data_array_error |-> 0, cache_tag_array_error |-> 2])>>
  \o ErrorStatus(<<"%MC2_STATUS">>) \o
  <<When(EqN(<<"ADDRV">>, 1),
     <<When(And(Test(<<"ERR_CODE">>, 2304), Eq(<<"ERR_CODE_CacheLevel">>, "level_2")),
        <<When(Eq(<<"EXT_ERR_CODE">>, "bus_or_cache_data_array_error"),
           ErrorAddress("hex_t", <<"%MC2_ADDR">>))>>)>>),
    Close>>

k8_msr_ls ==
  <<Open("ls"),
    R(<<"%MC3_CTL", "%MC3_STATUS", "%MC3_ADDR">>),
    F({"yesno_t"}, {<<"%MC3_CTL">>}, <<"S_RDE_L", "S_RDE_S">>)>>
  \o ErrorCode(<<"%MC3_STATUS">>) \o ErrorStatus(<<"%MC3_STATUS">>)
  \o <<When(EqN(<<"ADDRV">>, 1), <<>>), Close>>

-----------------------------------------------------------------------------
k8_ht_config ==
  <<Call("PCI_SCOPE", "ht_config"),
    Open("ht_route"),
    T(<<"ht_route_t">>)>>
  \o Repeat(8,
   <<OpenNext("node"),
     R(<<"%ht_route">>),
     F({"ht_route_t"}, {<<"%ht_route">>}, <<"RQRoute", "RPRoute", "BCRoute">>),
     Close>>)
  \o
  <<Close,
    R(<<"%node_id">>),
    F({"int_t"}, {<<"%node_id">>},
      <<"NodeId", "NodeCnt", "SbNode", "LkNode", "CpuCnt">>),
    R(<<"%unit_id">>),
    F({"int_t"}, {<<"%unit_id">>},
      <<"C0Unit", "C1Unit", "MctUnit", "HbUnit", "SbLink">>),
    R(<<"%link_txn_ctrl">>),
    F({"yesno_t"}, {<<"%link_txn_ctrl">>},
      <<"DisRdBP", "DisRdDwP", "DisWrBP", "DisWrDwP", "DisMTS", "Cpu1En",
        "CPUReqPassPW", "CPURdRspPassPW", "DisPMemC", "DisRmtPMemC",
        "DisFillP", "RespPassPW", "BufRelPri", "LimitCldtCfg", "LintEn",
        "ApicExtBrdCst", "ApicExtId", "ApicExtSpur", "SeqIdSrcNodeEn",
        "DsNpReqLmt">>),
    When(RevF(OfNode), <<F({"yesno_t"}, {<<"%link_txn_ctrl">>}, <<"InstallStateS">>)>>),
    F({"yesno_t"}, {<<"%link_txn_ctrl">>},
      <<"DispRefModeEn", "CHtExtAddrEn", "EnPReqHiPriTblWlk">>),
    R(<<"%link_init_ctrl">>),
    F({"yesno_t"}, {<<"%link_init_ctrl">>},
      <<"RouteTblDis", "ReqDis", "DefLnk", "ColdRstDet">>),
    \* bits of their own for each revision
    If(RevF(OfNode), <<F({"hex_t"}, {<<"%link_init_ctrl">>}, <<"BiosRstDet">>)>>,
       <<F({"hex_t"}, {<<"%link_init_ctrl">>}, <<"BiosRstDet">>)>>),
    F({"int_t", "yesno_t"}, {<<"%link_init_ctrl">>},
      <<"InitDet", "DefSubLnk", "Tr0Double">>)>>
  \o Repeat(4,
   <<OpenNext("ldt"),
     R(<<"%ldt_buf_count">>),
     F({"int_t"}, {<<"%ldt_buf_count">>},
       <<"Req", "PReq", "Rsp", "Probe", "ReqD", "PReqD", "RspD">>),
     R(<<"%ldt_bus_nums">>),
     F({"int_t"}, {<<"%ldt_bus_nums">>}, <<"PriBusNum", "SecBusNum", "SubBusNum">>),
     R(<<"%ldt_type">>),
     F({"yesno_t"}, {<<"%ldt_type">>},
       <<"LinkCon", "InitComplete", "NC", "UniP_cLDT", "LinkConPend">>),
     Close>>)
  \o <<Close>>

(* A range of addresses has its base, its limit and where it leads to if   *)
(* reading or writing of it is enabled.                                    *)
AddressRange(n, name, base, limit, type, fields) ==
  Repeat(n,
   <<OpenNext(name),
     R(<<base, limit>>),
     V({"enabledisable_t"}, {<<base>>}, "RE", YesNo),
     V({"enabledisable_t"}, {<<base>>}, "WE", YesNo),
     When(Or(Bool(<<"RE">>), Bool(<<"WE">>)),
      <<F(type, {<<base>>, <<limit>>}, fields)>>),
     Close>>)
k8_address_map ==
  <<Call("PCI_SCOPE", "address_map")>>
  \o AddressRange(8, "dram", "%dram_base", "%dram_limit", {"addr64_t", "int_t"},
       <<"DRAMBase", "DRAMLimit", "DstNode", "IntlvEn", "IntlvSel">>)
  \o AddressRange(8, "mmio", "%mmio_base", "%mmio_limit",
       {"addr64_t", "int_t", "yesno_t"},
       <<"MMIOBase", "MMIOLimit", "DstNode", "DstLink", "NP", "CpuDis", "Lock">>)
  \o AddressRange(4, "pciio", "%pciio_base", "%pciio_limit",
       {"addr64_t", "enabledisable_t", "int_t"},
       <<"PCIIOBase", "PCIIOLimit", "DstNode", "DstLink", "VE", "IE">>)
  \o AddressRange(4, "config", "%config", "%config", {"enabledisable_t", "int_t"},
       <<"DstNode", "DstLink", "BusNumBase", "BusNumLimit", "DevCmpEn">>)
  \o
  <<R(<<"%DRAMHole">>),
    Open("dram_hole"),
    V({"truefalse_t"}, {Up("%DRAMHole")}, "DramHoleValid", YesNo),
    When(Bool(<<"DramHoleValid">>),
     <<F({"hex32_t"}, {Up("%DRAMHole")}, <<"DramHoleOffset", "DramHoleBase">>)>>),
    Close,
    Close>>

dram_additional_data(name) ==
  <<Open(name),
    R(<<"%output_driver_compensation_ctrl">>),
    F({}, {<<"%output_driver_compensation_ctrl">>},
      <<"CkeDreStren", "CsOdtDrvStren", "AddrCmdDrvStren", "ClkDrvStren",
        "DataDrvStren", "DqsDrvStren", "ProcOdt">>),
    R(<<"%write_data_timing_lo_ctrl", "%write_data_timing_hi_ctrl">>),
    F({}, {<<"%write_data_timing_lo_ctrl">>, <<"%write_data_timing_hi_ctrl">>},
      [i \in 1..8 |-> "WrDatTimeByte" \o ToString(i - 1)]),
    R(<<"%write_data_ecc_timing_ctrl">>),
    F({}, {<<"%write_data_ecc_timing_ctrl">>}, <<"WrChkTime">>),
    R(<<"%address_timing_ctrl">>),
    F({}, {<<"%address_timing_ctrl">>},
      <<"CkeFineDelay", "CkeSetup", "CsOdtFineDelay", "CsOdtSetup",
        "AddrCmdFineDelay", "AddrCmdSetup", "AtcDllMaxPhases">>),
    R(<<"%read_dqs_timing_lo_ctrl", "%read_dqs_timing_hi_ctrl">>),
    F({}, {<<"%read_dqs_timing_lo_ctrl">>, <<"%read_dqs_timing_hi_ctrl">>},
      [i \in 1..8 |-> "RdDqsTimeByte" \o ToString(i - 1)]),
    R(<<"%read_dqs_ecc_timing_ctrl">>),
    F({}, {<<"%write_data_ecc_timing_ctrl">>}, <<"RdDqsTimeCheck">>)>>
  \o Repeat(4,
   <<RNext("%dqs_receiver_enable_timing_ctrl"),
     FNext({}, {<<"%dqs_receiver_enable_timing_ctrl", "[-1]">>}, "DqsRcvEnDelay")>>)
  \o <<Close>>

-----------------------------------------------------------------------------
k8_dram_controller ==
  <<Call("PCI_SCOPE", "dram_ctrl")>>
  \o Run(<<"k8_dram_cs", "k8_dram_init", "k8_dram_timing", "k8_dram_config",
           "k8_bank_address_mapping", "k8_dram_misc">>)
  \o <<Close>>

CsMask(n) ==
  Repeat(n, <<OpenNext("cs_mask"), R(<<"%cs_mask">>),
              F({"hex64_t"}, {<<"%cs_mask">>}, <<"AddrMask">>), Close>>)
k8_dram_cs ==
  Repeat(8,
   <<OpenNext("cs_base"),
     R(<<"%cs_base">>),
     Rev(OfNode,
      [rev_e |-> <<F({"addr64_t", "enabledisable_t"}, {<<"%cs_base">>},
                     <<"CSBE", "BaseAddr">>)>>,
       rev_f |-> <<F({"addr64_t", "enabledisable_t", "yesno_t"}, {<<"%cs_base">>},
                     <<"CSEnable", "Spare", "TestFail", "BaseAddr">>)>>]),
     Close>>)
  \o <<Rev(OfNode, [rev_e |-> CsMask(8), rev_f |-> CsMask(4)])>>

k8_dram_init ==
  <<When(RevF(OfNode),
     <<R(<<"%dram_control">>),
       Open("dram_control"),
       F({"enabledisable_t", "hex_t"}, {Up("%dram_control")},
         <<"RdPtrInit", "RdPadRcvFifoDly", "AltVidC3MemClkTriEn",
           "DllTempAdjTime", "DqsRcvEnTrain">>),
       Close,
       R(<<"%dram_init">>),
       Open("dram_init"),
       T(<<"send_t">>),
       F({"enabledisable_t", "hex16_t", "hex_t", "send_t", "yesno_t"},
         {Up("%dram_init")},
         <<"MrsAddress", "MrsBank", "SendPchgAll", "SendAutoRefresh",
           "SendMrsCmd", "DeassertMemRstX", "AssertCke", "EnDramInit">>),
       Close>>),
    T(<<"busclocks_t">>)>>

k8_dram_timing ==
  <<R(<<"%dram_timing_low", "%dram_timing_high">>),
    Open("dram_timing"),
    Rev(OfNode,
     [rev_e |->
        <<F({"busclocks_t"}, {Up("%dram_timing_low")},
            <<"Tcl", "Trc", "Trfc", "Trcd", "Trrd", "Tras", "Trp", "Twr">>)>>,
      rev_f |->
        <<F({"busclocks_t", "int_t"}, {Up("%dram_timing_low")},
            <<"Tcl", "Trcd", "Trp", "Trtp", "Tras", "Trc", "Twr", "Trrd",
              "MemClkDis">>)>>]),
    Rev(OfNode,
     [rev_e |->
        <<F({"busclocks_t"}, {Up("%dram_timing_high")},
            <<"Twtr", "Trwt", "Tref", "Twcl">>)>>,
      rev_f |->
        <<F({"busclocks_t"}, {Up("%dram_timing_high")},
            <<"TrwtTO", "Twtr", "Twrrd", "Twrwr", "Trdrd", "Tref",
              "DisAutoRefresh">>)>>
        \o Repeat(4, <<FNext({}, {Up("%dram_timing_high")}, "Trfc")>>)
        \o <<T(<<"trfc_t">>)>>
        \o Repeat(4, <<FNext({"trfc_t"}, {Up("%dram_timing_high")}, "Trfc")>>)]),
    Close>>

-----------------------------------------------------------------------------
DramConfigLowE ==
  <<F({"enabledisable_t", "yesno_t"}, {Up("%dram_config_low")},
      <<"DLL_Dis", "D_DRV", "QFC_EN", "DisDqsHys">>),
    V({"yesno_t"}, {Up("%dram_config_low")}, "Burst2Opt", YesNo),
    F({"enabledisable_t", "yesno_t"}, {Up("%dram_config_low")},
      <<"Mod64BitMux", "PwrDwnTriEn", "DramInit", "DualDimmEn", "DramEn",
        "MemClrStatus", "ESR", "SR_S", "RdWrQByp">>),
    V({}, {Up("%dram_config_low")}, "Width128", [bits_128 |-> 1, bits_64 |-> 0]),
    F({"enabledisable_t"}, {Up("%dram_config_low")}, <<"DimmEcEn">>),
    V({}, {Up("%dram_config_low")}, "UnBuffDimm", [unbuffered |-> 1, buffered |-> 0])>>
  \o Repeat(4, <<FNext({"int_t"}, {Up("%dram_config_low")}, "x4DIMMS")>>)
  \o
  <<F({"int_t"}, {Up("%dram_config_low")}, <<"DisInRcvrs", "BypMax">>),
    V({"yesno_t"}, {Up("%dram_config_low")}, "En2T", YesNo),
    F({"yesno_t"}, {Up("%dram_config_low")}, <<"UpperCSMap", "PwrDownCtl">>),
    \* the keys differ
    If(And(EqN(<<"Burst2Opt">>, 1), And(EqN(<<"UnBuffDimm">>, 1), EqN(<<"En2T">>, 0))),
     <<F({}, {Up("%dram_config_low")}, <<"Bytes32En">>)>>,
     <<F({}, {Up("%dram_config_low")}, <<"Bytes32En">>)>>)>>

DramConfigLowF ==
  <<F({"enabledisable_t", "yesno_t"}, {Up("%dram_config_low")},
      <<"InitDram", "ExitSelfRef", "DramTerm", "DramDrvWeak", "ParEn",
        "SelfRefRateEn", "BurstLength32">>),
    V({}, {Up("%dram_config_low")}, "Width128", [bits_128 |-> 1, bits_64 |-> 0])>>
  \o Repeat(4, <<FNext({}, {Up("%dram_config_low")}, "x4Dimm")>>)
  \o
  <<V({}, {Up("%dram_config_low")}, "UnBuffDimm", [unbuffered |-> 1, buffered |-> 0]),
    F({"enabledisable_t"}, {Up("%dram_config_low")}, <<"DimmEccEn">>)>>

k8_dram_config ==
  <<R(<<"%dram_config_low", "%dram_config_high">>),
    Open("dram_config"),
    T(<<"ns_t">>),
    Rev(OfNode, [rev_e |-> DramConfigLowE, rev_f |-> DramConfigLowF]),
    Rev(OfNode,
     [rev_e |->
        <<F({"enabledisable_t", "ns_t", "yesno_t"}, {Up("%dram_config_high")},
            <<"AsyncLat", "RdPreamble", "MemDQDrvStren", "DisableJitter",
              "ILD_lmt", "DCC_EN", "MemClk", "MCR">>)>>
        \o Repeat(4, <<FNext({"enabledisable_t"}, {Up("%dram_config_high")}, "MC_EN")>>)
        \o <<F({"enabledisable_t"}, {Up("%dram_config_high")},
               <<"OddDivisorCorrect">>)>>,
      rev_f |->
        <<F({"enabledisable_t", "ns_t", "truefalse_t", "yesno_t"},
            {Up("%dram_config_high")},
            <<"MemClkFreq", "MemClkFreqVal", "MaxAsyncLat", "RDqsEn",
              "DisDramInterface", "PowerDownEn", "PowerDownMode",
              "FourRankSODimm", "FourRankRDimm", "SlowAccessMode",
              "BankSwizzleMode", "DcqBypassMax", "FourActWindow">>)>>]),
    Close>>

k8_bank_address_mapping ==
  <<R(<<"%bank_address_mapping">>),
    Open("bank_address_mapping"),
    Rev(OfNode,
     [rev_e |-> <<T(<<"cs_size_t">>)>>,
      \* the sizes differ
      rev_f |-> <<If(Eq(<<"..", "dram_config", "Width128">>, "bits_64"),
                     <<T(<<"cs_size_t">>)>>, <<T(<<"cs_size_t">>)>>)>>]),
    F({"cs_size_t"}, {Up("%bank_address_mapping")},
      <<"CS1_0", "CS3_2", "CS5_4", "CS7_6">>),
    When(RevE(OfNode),
     <<F({"enabledisable_t"}, {Up("%bank_address_mapping")},
         <<"BankSwizzleMode">>)>>),
    Close>>

k8_dram_misc ==
  <<Rev(OfNode,
     [rev_e |->
        <<R(<<"%dram_delay_line">>),
          Open("dram_delay_line"),
          F({"enabledisable_t", "int_t", "yesno_t"}, {Up("%dram_delay_line")},
            <<"Adj", "AdjSlower", "AdjFaster", "AltVidC3MemClkTriEn",
              "CompPwrSaveEn", "DllSpeed", "DllSpeedOverride">>),
          Close,
          F({"hex32_t"}, {Anon}, <<"ScratchData">>)>>,
      rev_f |->
        <<R(<<"%dram_additional_data_offset", "%dram_additional_data_port">>),
          Call("dram_additional_data", "channel_a"),
          Call("dram_additional_data", "channel_b"),
          R(<<"%dram_controller_misc">>),
          Open("dram_misc"),
          F({"enabledisable_t", "yesno_t"}, {Up("%dram_controller_misc")},
            <<"DisableJitter", "RdWrQByp", "Mod64BitMux", "DCC_EN", "ILD_lmt",
              "DramEnabled", "PwrSavingsEn", "MemClkDis">>),
          Close>>])>>

-----------------------------------------------------------------------------
k8_misc_control ==
  <<Call("PCI_SCOPE", "misc_ctrl")>>
  \o Run(<<"k8_mca_config", "k8_mca_status", "k8_mca_address",
           "k8_scrubbers_thermal", "k8_buffer_counts", "k8_power_gart",
           "k8_power_timing", "k8_thermtrip_caps">>)
  \o <<Close>>

k8_mca_config ==
  <<Open("mca_northbridge"),
    R(<<"%control", "%config">>),
    Open("control_config"),
    F({"enabledisable_t"}, {Up("%control")},
      <<"CorrEccEn", "UnCorrEccEn", "CrcErr0En", "CrcErr1En", "CrcErr2En",
        "SyncPkt0En", "SyncPkt1En", "SyncPkt2En", "MstrAbrtEn", "TgtAbrtEn",
        "GartTblWkEn", "AtomicRMWEn", "WchDogTmrEn">>),
    When(RevF(OfNode), <<F({"enabledisable_t"}, {Up("%control")}, <<"DramParEn">>)>>),
    F({"disableenable_t", "enabledisable_t", "yesno_t"}, {Up("%config")},
      <<"CpuEccErrEn", "CpuRdDatErrEn", "SyncOnUcEccEn", "SyncPktGenDis",
        "SyncPktPropDis", "IoMstAbortDis", "CpuErrDis", "IoErrDis",
        "WdogTmrDis", "WdogTmrCntSel", "WdogTmrBaseSel", "LdtLinkSel",
        "GenCrcErrByte0", "GenCrcErrByte1", "SyncOnWdogEn", "SyncOnAnyErrEn",
        "EccEn", "ChipKillEccEn", "IoRdDatErrEn", "DisPciCfgCpuErrRsp">>),
    Rev(OfNode,
     [rev_e |-> <<F({"enabledisable_t"}, {Up("%config")}, <<"NbMcaToMstExcEn">>)>>,
      rev_f |-> <<F({"enabledisable_t"}, {Up("%config")}, <<"NbMcaToMstCpuEn">>)>>]),
    When(RevF(OfNode),
     <<F({"enabledisable_t", "yesno_t"}, {Up("%config")},
         <<"DisTgtAbtCpuErrRsp", "DisMstAbtCpuErrRsp", "SyncOnDramAdrParErrEn">>)>>),
    Close>>

ErrorExtKeys ==
  [ecc_error |-> 0, crc_error |-> 1, sync_error |-> 2, mst_abort |-> 3,
   tgt_abort |-> 4, rmw_error |-> 6, wdog_error |-> 7, chipkill_ecc_error |-> 8,
   dev_error |-> 9, dram_parity_error |-> 13]
k8_mca_status ==
  <<R(<<"%status_low", "%status_high">>),
    Open("status"),
    T(<<"cachelevel_t", "memorio_t", "mtt_t", "participationproc_t",
        "transtype_t">>),
    V({"hex16_t"}, {Up("%status_low")}, "ErrorCode", NoKeys),
    If(Test(<<"ErrorCode">>, 2048),
     <<F({"cachelevel_t", "memorio_t", "mtt_t", "participationproc_t", "yesno_t"},
         {Up("%status_low")},
         <<"CacheLevel", "MemoryOrIO", "MemoryTransactionType", "Timeout",
           "ParticipationProcessor">>),
       V({}, {Up("%status_low")}, "ErrorCodeExt", ErrorExtKeys),
       When(Eq(<<"ErrorCodeExt">>, "chipkill_ecc_error"),
        <<F({"hex8_t"}, {Up("%status_low")}, <<"Syndrome">>)>>)>>,
     <<If(Test(<<"ErrorCode">>, 256),
        <<F({"cachelevel_t", "mtt_t", "transtype_t"}, {Up("%status_low")},
            <<"CacheLevel", "TransactionType", "MemoryTransactionType">>)>>,
        <<When(Test(<<"ErrorCode">>, 16),
           <<F({"cachelevel_t", "transtype_t"}, {Up("%status_low")},
               <<"CacheLevel", "TransactionType">>),
             V({}, {Up("%status_low")}, "ErrorCodeExt", [gart_error |-> 5])>>)>>)>>)>>
  \o Repeat(2, <<FNext({"yesno_t"}, {Up("%status_high")}, "ErrCPU")>>)
  \o Repeat(3, <<FNext({}, {Up("%status_high")}, "LDTLink")>>)
  \o
  <<F({"yesno_t"}, {Up("%status_high")}, <<"ErrScrub">>),
    When(RevF(OfNode), <<F({}, {Up("%status_high")}, <<"DramChannel">>)>>),
    F({"enabledisable_t", "hex8_t", "yesno_t"}, {Up("%status_high")},
      <<"UnCorrECC", "CorrECC", "ECC_Synd", "PCC", "ErrAddrVal", "ErrMiscVal",
        "ErrEn", "ErrUnCorr", "ErrOver", "ErrValid">>),
    Close>>

(* ErrorCodeExt is a field of "status", which is closed.                   *)
k8_mca_address ==
  <<R(<<"%address_low", "%address_high">>),
    If(And(Defined(<<"ErrorCodeExt">>), Eq(<<"ErrorCodeExt">>, "wdog_error")),
     <<Open("wdog_error"),
       F({"hex_t", "int_t", "yesno_t"}, {Up("%address_low")},
         <<"LdtCmd", "OpType", "NextAction", "SrcPtr", "SrcUnit", "SrcNode",
           "DstUnit", "DstNode", "WaitPW">>),
       Rev(OfNode,
        [rev_e |-> <<F({"bitfield_t"}, {Up("%address_high"), Up("%address_low")},
                       <<"WaitCode">>)>>,
         rev_f |-> <<F({}, {Up("%address_high"), Up("%address_low")},
                       <<"WaitCode">>)>>]),
       F({"yesno_t"}, {Up("%address_high")}, <<"RspCnt", "GartTblWkInProg">>),
       Close>>,
     <<F({"addr64_t"}, {<<"%address_high">>, <<"%address_low">>}, <<"ErrAddr">>)>>),
    Close>>

-----------------------------------------------------------------------------
k8_scrubbers_thermal ==
  <<Open("scrubbers"),
    R(<<"%scrub_control">>),
    T(<<"scrub_rate_t">>),
    F({"scrub_rate_t"}, {<<"%scrub_control">>},
      <<"DramScrub", "L2Scrub", "DcacheScrub">>),
    R(<<"%dram_scrub_address_low", "%dram_scrub_address_high">>),
    F({"addr64_t", "yesno_t"},
      {<<"%dram_scrub_address_low">>, <<"%dram_scrub_address_high">>},
      <<"ScrubReDirEn", "ScrubAddr">>),
    Close,
    When(RevF(OfNode),
     <<R(<<"%htc">>),
       Open("htc"),
       F({"enabledisable_t", "yesno_t"}, {Up("%htc")},
         <<"HtcEn", "HtcSbcEn", "HtcAct", "HtcActSts">>),
       Close,
       R(<<"%ThermalControl">>),
       Open("thermal_control"),
       F({"enabledisable_t", "yesno_t"}, {Up("%ThermalControl")},
         <<"StcSbcTmpHiEn", "StcSbcTmpLoEn", "StcApcTmpHiEn", "StcApcTmpLoEn",
           "StcTmpHiSts", "StcTmpLoSts", "StcTmpLmt", "StcHystLmt">>),
       Close>>)>>

\* a register and a scope of its fields
InScope(reg, name, types, fields) ==
  <<R(<<reg>>), Open(name), F(types, {Up(reg)}, fields), Close>>
k8_buffer_counts ==
  <<Open("buffer_counts")>>
  \o InScope("%sri_to_xbar", "sri_to_xbar", {"int_t"},
       <<"UReq", "UPReq", "URsp", "ReqD", "DispRefReq", "URspD", "DReq", "DPReq">>)
  \o InScope("%xbar_to_sri", "xbar_to_sri", {"int_t"},
       <<"UReq", "UPReq", "Prb", "DispRefReq", "DReq", "DPReq">>)
  \o InScope("%mct_to_xbar", "mct_to_xbar", {"int_t"}, <<"Rsp", "Prb", "RspD">>)
  \o InScope("%free_list", "free_list", {"int_t"}, <<"FreeCmd", "FReq", "FRsp", "FRspD">>)
  \o <<Close>>

PMM(reg) ==
  Repeat(4,
   <<OpenNext("PMM"),
     F({"clksel_t", "enabledisable_t"}, {Up(reg)},
       <<"CPULowPrEn", "NBLowPwrEn", "FidVidEn", "AltVidEn", "ClkSel">>),
     Close>>)
k8_power_gart ==
  <<R(<<"%power_mgmt_control_low", "%power_mgmt_control_high">>),
    T(<<"clksel_t">>)>>
  \o PMM("%power_mgmt_control_low") \o PMM("%power_mgmt_control_high")
  \o <<Open("gart")>>
  \o InScope("%aperture_control", "aperture_control", {"enabledisable_t", "yesno_t"},
       <<"GartEn", "GartSize", "DisGartCpu", "DisGartIo", "DisGartTblWlkPrb">>)
  \o
  <<R(<<"%aperture_base">>),
    F({"addr64_t"}, {<<"%aperture_base">>}, <<"GartAperBaseAddr">>),
    R(<<"%table_base">>),
    F({"addr64_t"}, {<<"%table_base">>}, <<"GartTblBaseAddr">>)>>
  \o InScope("%cache_control", "cache_control", {"yesno_t"}, <<"InvGart", "GartPteErr">>)
  \o <<Close>>

k8_power_timing ==
  <<When(RevF(OfNode),
      InScope("%power_control_misc", "power_control_misc",
        {"enabledisable_t", "hex_t"}, <<"PsiVid", "PsiVidEn">>)
      \o InScope("%on_line_spare_control", "on_line_spare_control",
        {"enabledisable_t", "int_t", "yesno_t"},
        <<"SwapEn", "SwapDone", "BadDramCs", "SwapDoneInt", "EccErrInt",
          "EccErrCntDramCs", "EccErrCntDramChan", "EccErrCntWrEn", "EccErrCnt">>)),
    R(<<"%clock_power_timing_low", "%clock_power_timing_high">>),
    Open("clock_power_timing"),
    F({}, {Up("%clock_power_timing_low"), Up("%clock_power_timing_high")},
      <<"GPE", "ClkRampHyst", "ReConDel", "LClkPLLLock", "VSTime">>),
    When(Or(RevE(OfNode), RevF(OfNode)),
     <<F({"hex_t"}, {Up("%clock_power_timing_high")}, <<"AltVid">>)>>),
    When(RevF(OfNode),
     <<F({"enabledisable_t"}, {Up("%clock_power_timing_high")},
         <<"AltVidTriEn", "GfxMode">>)>>),
    F({}, {Up("%clock_power_timing_high")}, <<"RampVIDOff">>),
    Close,
    R(<<"%ht_read_ptr_optimization">>),
    Open("ht_read_pointer_optimiation"),
    T(<<"ht_clocks">>)>>
  \o Repeat(3,
   <<FNext({"ht_clocks"}, {Up("%ht_read_ptr_optimization")}, "RcvRdPtrLdt"),
     FNext({"ht_clocks"}, {Up("%ht_read_ptr_optimization")}, "XmtRdPtrLdt")>>)
  \o <<Close>>

k8_thermtrip_caps ==
  <<R(<<"%thermtrip_status">>),
    Open("thermtrip_status"),
    F({"yesno_t"}, {Up("%thermtrip_status")}, <<"Thermtp">>),
    When(RevF(OfNode), <<F({}, {Up("%thermtrip_status")}, <<"ThermSenseCoreSel">>)>>),
    F({"enabledisable_t", "yesno_t"}, {Up("%thermtrip_status")},
      <<"ThermtpSense0", "ThermtpSense1", "ThermtpEn">>),
    When(RevF(OfNode), <<F({"int_t"}, {Up("%thermtrip_status")}, <<"ThermSenseSel">>)>>),
    Rev(OfNode,
     [rev_e |->
        <<V({}, {Up("%thermtrip_status")}, "DiodeOffsetSignBit",
            [negative |-> 1, positive |-> 0]),
          \* the value is transformed the one way or the other
          If(Eq(<<"DiodeOffsetSignBit">>, "negative"),
           <<F({}, {Up("%thermtrip_status")}, <<"DiodeOffset">>)>>,
           <<F({}, {Up("%thermtrip_status")}, <<"DiodeOffset">>)>>),
          F({}, {Up("%thermtrip_status")}, <<"TCaseMax">>)>>,
      rev_f |->
        <<F({"int_t"}, {Up("%thermtrip_status")},
            <<"DiodeOffset", "CurTmp", "TjOffset">>)>>]),
    F({"onoff_t"}, {Up("%thermtrip_status")}, <<"SwThermtp">>),
    Close,
    R(<<"%northbridge_capabilities">>),
    Open("northbridge_capabilities"),
    F({"yesno_t"}, {Up("%northbridge_capabilities")},
      <<"_128BitCap", "MPCap", "BigMPCap", "EccCap", "ChipKillEccCap",
        "DramFreq", "MemCntCap">>),
    When(RevF(OfNode), <<F({"yesno_t"}, {Up("%northbridge_capabilities")}, <<"HtcCap">>)>>),
    F({}, {Up("%northbridge_capabilities")}, <<"CmpCap">>),
    Close,
    When(RevF(OfNode), <<F({"hex32_t"}, {Anon}, <<"cpuid_family_model">>)>>)>>

-----------------------------------------------------------------------------
k8_pci ==
  <<OpenNext("k8"),
    Bookmark("$k8"),
    Call("k8_types", 0),
    Alias("k8_rev", <<"/", "cpu", "[0]", "k8_rev">>),
    Call("k8_ht_config", 0),
    Call("k8_address_map", 0),
    Call("k8_dram_controller", 0),
    Call("k8_misc_control", 0),
    Close>>

K8Rev(rev) == <<Const({"k8_rev_t"}, "k8_rev", RevKeys, RevKeys[rev])>>
k8_cpu(name) ==
  <<Open(name),
    Bookmark("$cpu"),
    Call("k8_types", 0),
    Call("k8_cpuid", 0),
    T(<<"k8_rev_t">>),
    If(EqN(<<"cpuid", "family">>, 15),
     <<If(GeN(<<"cpuid", "model">>, 64), K8Rev("rev_f"),
        <<If(GeN(<<"cpuid", "model">>, 32), K8Rev("rev_e"), K8Rev("unknown"))>>)>>,
     K8Rev("unknown")),
    Call("k8_msr", 0),
    Close,
    AliasNext("cpu", <<name>>)>>

(* What a Call runs.                                                       *)
K8Sections ==
  {"k8_types", "k8_cpuid", "k8_msr", "k8_msr_system", "k8_msr_memory",
   "k8_msr_perf_ctr", "k8_msr_power_mgmt", "k8_msr_io_trap", "k8_msr_smm",
   "k8_msr_mc_global", "k8_msr_data_cache", "k8_msr_instr_cache", "k8_msr_bus",
   "k8_msr_ls", "k8_ht_config", "k8_address_map", "dram_additional_data",
   "k8_dram_controller", "k8_dram_cs", "k8_dram_init", "k8_dram_timing",
   "k8_dram_config", "k8_bank_address_mapping", "k8_dram_misc",
   "k8_misc_control", "k8_mca_config", "k8_mca_status", "k8_mca_address",
   "k8_scrubbers_thermal", "k8_buffer_counts", "k8_power_gart",
   "k8_power_timing", "k8_thermtrip_caps", "k8_pci", "k8_cpu"}

K8Body(fn, arg) ==
  CASE fn = "k8_types" -> k8_types
    [] fn = "k8_cpuid" -> k8_cpuid
    [] fn = "k8_msr" -> k8_msr
    [] fn = "k8_msr_system" -> k8_msr_system
    [] fn = "k8_msr_memory" -> k8_msr_memory
    [] fn = "k8_msr_perf_ctr" -> k8_msr_perf_ctr
    [] fn = "k8_msr_power_mgmt" -> k8_msr_power_mgmt
    [] fn = "k8_msr_io_trap" -> k8_msr_io_trap
    [] fn = "k8_msr_smm" -> k8_msr_smm
    [] fn = "k8_msr_mc_global" -> k8_msr_mc_global
    [] fn = "k8_msr_data_cache" -> k8_msr_data_cache
    [] fn = "k8_msr_instr_cache" -> k8_msr_instr_cache
    [] fn = "k8_msr_bus" -> k8_msr_bus
    [] fn = "k8_msr_ls" -> k8_msr_ls
    [] fn = "k8_ht_config" -> k8_ht_config
    [] fn = "k8_address_map" -> k8_address_map
    [] fn = "dram_additional_data" -> dram_additional_data(arg)
    [] fn = "k8_dram_controller" -> k8_dram_controller
    [] fn = "k8_dram_cs" -> k8_dram_cs
    [] fn = "k8_dram_init" -> k8_dram_init
    [] fn = "k8_dram_timing" -> k8_dram_timing
    [] fn = "k8_dram_config" -> k8_dram_config
    [] fn = "k8_bank_address_mapping" -> k8_bank_address_mapping
    [] fn = "k8_dram_misc" -> k8_dram_misc
    [] fn = "k8_misc_control" -> k8_misc_control
    [] fn = "k8_mca_config" -> k8_mca_config
    [] fn = "k8_mca_status" -> k8_mca_status
    [] fn = "k8_mca_address" -> k8_mca_address
    [] fn = "k8_scrubbers_thermal" -> k8_scrubbers_thermal
    [] fn = "k8_buffer_counts" -> k8_buffer_counts
    [] fn = "k8_power_gart" -> k8_power_gart
    [] fn = "k8_power_timing" -> k8_power_timing
    [] fn = "k8_thermtrip_caps" -> k8_thermtrip_caps
    [] fn = "k8_pci" -> k8_pci
    [] fn = "k8_cpu" -> k8_cpu(arg)
===============================================================================
