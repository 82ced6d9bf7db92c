------------------------------- MODULE CpuCode --------------------------------
(***************************************************************************)
(* A CPU: devices/cpu/cpu.cc, and what CPUID and the model-specific        *)
(* registers tell, devices/cpuid and devices/msr.  An operator is the part *)
(* of a function that it is named for.                                     *)
(***************************************************************************)
EXTENDS DeviceCode

(* cpuid_datatypes_init() and msr_datatypes_init(): the types at the root, *)
(* and the keys that are compared.  A vendor of 0 is any other; of a       *)
(* bitmask a key stands for the number of the bit.                         *)
CpuidTypes ==
  {"cpuid_vendor_t", "cpuid_features_t", "cpuid_ext_features_t",
   "cache_descriptor_t", "cache_descriptor_xeon_t"}
MsrTypes    == {"mtrr_type_t", "pat_type_t"}
VendorKeys  == [intel |-> 1, amd |-> 2]
FeatureKeys == [pse |-> 3, htt |-> 28]

-----------------------------------------------------------------------------
(* cpuid_generic_device().  Of the extended functions 0x80000000 and up    *)
(* the number is given without its top bit.                                *)
cpuid_functions_0_1 ==
  <<Bookmark("$cpuid"),
    R(<<"%function_0">>),
    V({"hex_t"}, {<<"%function_0">>}, "largest_std_fn", NoKeys),
    V({"cpuid_vendor_t"}, {<<"%function_0">>}, "vendor", VendorKeys),
    F({"string_t"}, {<<"%function_0">>}, <<"vendor_str">>),
    When(GeN(<<"largest_std_fn">>, 1),
     <<R(<<"%function_1">>),
       V({"int_t"}, {}, "family", NoKeys),
       V({"int_t"}, {}, "model", NoKeys),
       F({"int_t"}, {<<"%function_1">>}, <<"stepping", "type">>),
       V({"cpuid_features_t"}, {<<"%function_1">>}, "std_features", FeatureKeys),
       F({"int_t"}, {<<"%function_1">>},
         <<"brand_id", "clflush_size">>),
       If(TestKey(<<"std_features">>, "htt"),
        <<F({"int_t"}, {<<"%function_1">>}, <<"logical_proc_count">>)>>,
        <<F({"int_t"}, {}, <<"logical_proc_count">>)>>),
       F({"int_t"}, {<<"%function_1">>}, <<"init_lapic_id">>)>>)>>

\* of each register the bytes that are not null, if its top bit is clear
cpuid_function_2 ==
  <<When(GeN(<<"largest_std_fn">>, 2),
     <<Open("cache_descriptors"),
       If(And(Eq(Up("vendor"), "intel"),
              And(EqN(Up("family"), 15), EqN(Up("model"), 6))),
        <<Call("cache_descriptors", "cache_descriptor_xeon_t")>>,
        <<Call("cache_descriptors", "cache_descriptor_t")>>)>>)>>

Descriptors(t, reg, bytes) ==
  When(Holds("valid." \o reg),
       [b \in 1..bytes |->
         When(Holds(reg \o Subscript(b)),
              <<FNext({t}, {<<"%function_2", "[-1]">>}, "descriptor")>>)])
Registers(t) ==
  <<Descriptors(t, "eax", 3), Descriptors(t, "ebx", 4),
    Descriptors(t, "ecx", 4), Descriptors(t, "edx", 4)>>
cache_descriptors(t) ==
  <<RNext("%function_2"),
    V({"int_t"}, {<<"%function_2", "[-1]">>}, "queries_needed", NoKeys)>>
  \o Registers(t)
  \o <<CallWith(IF t = "cache_descriptor_t" THEN "further_queries"
                ELSE "further_xeon_queries", <<"queries_needed">>)>>
further_queries(t, n) ==
  Repeat(n - 1, <<RNext("%function_2")>> \o Registers(t)) \o <<Close>>

\* the loop ends where the type of the next cache reads as null
cpuid_function_4 == <<When(GeN(<<"largest_std_fn">>, 4), <<Call("cache_info", 0)>>)>>

\* (Mutation of cache_info: every query is for the first cache.)
cache_info_of_first(i) ==
  <<F({}, {Anon}, <<>>),
    When(Holds("cache" \o Subscript(i)),
     <<OpenNext("cache_info"), R(<<"%function_4">>), Close,
       Call("cache_info", i)>>)>>
cache_info(i) ==
  <<F({}, {Anon}, <<>>),
    When(Holds("cache" \o Subscript(i)),
     <<OpenNext("cache_info"),
       R(<<"%function_4">>),
       F({"int_t", "yesno_t"}, {<<"%function_4">>},
         <<"type", "max_cores_per_pkg", "max_threads_sharing_cache",
           "fully_assoc", "self_init", "level", "ways_of_assoc",
           "phys_line_partitions", "sys_coherency_line_size", "num_sets",
           "prefetch_stride">>),
       Close,
       Call("cache_info", i + 1)>>)>>

cpuid_functions_5_A ==
  <<When(GeN(<<"largest_std_fn">>, 5),
     <<Open("monitor_mwait"),
       R(<<"%function_5">>),
       F({"int_t", "yesno_t"}, {<<"%function_5">>},
         <<"mon_line_size_min", "mon_line_size_max", "ibe", "emx",
           "c0_sub_states", "c1_sub_states", "c2_sub_states", "c3_sub_states",
           "c4_sub_states">>),
       Close>>),
    When(GeN(<<"largest_std_fn">>, 6),
     <<Open("therm_power_mgmt"),
       R(<<"%function_6">>),
       F({"int_t", "yesno_t"}, {<<"%function_6">>},
         <<"digital_thermal_sensor_cap", "num_int_thresholds",
           "hw_coord_feedback_cap">>),
       Close>>),
    When(GeN(<<"largest_std_fn">>, 9),
     <<Open("direct_cache_access"),
       R(<<"%function_9">>),
       F({"hex32_t"}, {<<"%function_9">>}, <<"platform_dca_cap">>),
       Close>>),
    When(GeN(<<"largest_std_fn">>, 10),
     <<Open("perf_mon_features"),
       R(<<"%function_A">>),
       T(<<"not_available_t">>),
       F({"int_t"}, {<<"%function_A">>},
         <<"ebx_bit_vector_len", "genpurpose_perfmon_counter_width",
           "genpurpose_perfmon_counter_num">>),
       V({"int_t"}, {<<"%function_A">>}, "arch_perfmon_version", NoKeys),
       F({"not_available_t"}, {<<"%function_A">>},
         <<"event_branch_mispredict_retired", "event_branch_instr_retired",
           "event_last_level_cache_misses",
           "event_last_level_cache_reverence", "event_reference_cycles",
           "event_instr_retired", "event_core_cycle">>),
       When(GtN(<<"arch_perfmon_version">>, 1),
        <<F({"int_t"}, {<<"%function_A">>},
            <<"fixed_fn_perf_counter_width", "fixed_fn_perf_counter_num">>)>>),
       Close>>)>>

cpuid_function_B == <<When(GeN(<<"largest_std_fn">>, 11), <<Call("topo_info", 0)>>)>>

topo_info(i) ==
  <<F({}, {Anon}, <<>>),
    When(Holds("topo" \o Subscript(i)),
     <<OpenNext("topo_info"),
       R(<<"%function_B">>),
       F({"hex32_t", "int_t"}, {<<"%function_B">>},
         <<"bits_to_shift_for_next_level_id", "enabled_logical_procs",
           "level_type", "level_num", "x2apic_id">>),
       Close,
       Call("topo_info", i + 1)>>)>>

cpuid_functions_80000000_4 ==
  <<R(<<"%function_80000000">>),
    V({"hex32_t"}, {<<"%function_80000000">>}, "largest_ext_fn", NoKeys),
    When(GeN(<<"largest_ext_fn">>, 1),
     <<R(<<"%function_80000001">>),
       When(Eq(<<"vendor">>, "amd"),
        <<F({"int_t"}, {<<"%function_80000001">>}, <<"brand_id_16bit">>),
          When(GeN(<<"family">>, 16),
           <<F({"hex_t"}, {<<"%function_80000001">>}, <<"pkg_type">>)>>)>>),
       F({"cpuid_ext_features_t"}, {<<"%function_80000001">>}, <<"ext_features">>)>>),
    When(GeN(<<"largest_ext_fn">>, 4),
     <<R(<<"%function_80000002", "%function_80000003", "%function_80000004">>),
       F({"string_t"},
         {<<"%function_80000004">>, <<"%function_80000003">>,
          <<"%function_80000002">>},
         <<"processor_name_str">>)>>)>>

cpuid_function_80000005 ==
  <<When(And(Eq(<<"vendor">>, "amd"), GeN(<<"largest_ext_fn">>, 5)),
     <<Open("l1_cache_tlb_identifiers"),
       R(<<"%function_80000005">>),
       T(<<"assoc_t", "entries_t">>),
       F({"assoc_t", "entries_t", "int_t"}, {<<"%function_80000005">>},
         <<"l1_d_tlb_2_and_4_m_assoc", "l1_d_tlb_2_and_4_m_size",
           "l1_i_tlb_2_and_4_m_assoc", "l1_i_tlb_2_and_4_m_size",
           "l1_d_tlb_4k_assoc", "l1_d_tlb_4k_size", "l1_i_tlb_4k_assoc",
           "l1_i_tlb_4k_size", "l1_d_c_size", "l1_d_c_assoc",
           "l1_d_c_lines_per_tag", "l1_d_c_line_size", "l1_i_c_size",
           "l1_i_c_assoc", "l1_i_c_lines_per_tag", "l1_i_c_line_size">>),
       Close>>)>>

cpuid_function_80000006 ==
  <<When(GeN(<<"largest_ext_fn">>, 6),
     <<Open("l2_l3_cache_l2_tlb_identifiers"),
       R(<<"%function_80000006">>),
       T(<<"assoc_t", "entries_t">>),
       When(Eq(Up("vendor"), "amd"),
        <<F({"assoc_t", "entries_t", "int_t"}, {<<"%function_80000006">>},
            <<"l2_d_tlb_2_and_4_m_assoc", "l2_d_tlb_2_and_4_m_size",
              "l2_i_tlb_2_and_4_m_assoc", "l2_i_tlb_2_and_4_m_size",
              "l2_d_tlb_4k_assoc", "l2_d_tlb_4k_size", "l2_i_tlb_4k_assoc",
              "l2_i_tlb_4k_size", "l2_lines_per_tag", "l3_size_min",
              "l3_size_max", "l3_assoc", "l3_lines_per_tag", "l3_line_size">>)>>),
       F({"assoc_t"}, {<<"%function_80000006">>},
         <<"l2_size", "l2_assoc", "l2_line_size">>),
       Close>>)>>

cpuid_functions_80000007_8 ==
  <<When(And(Eq(<<"vendor">>, "amd"), GeN(<<"largest_ext_fn">>, 7)),
     <<Open("adv_power_mgmt_info"),
       R(<<"%function_80000007">>),
       F({"yesno_t"}, {<<"%function_80000007">>},
         <<"ts", "fid", "vid", "ttp", "tm", "stc", "_100_mhz_steps",
           "hw_p_state", "tsc_invariant">>),
       Close>>),
    When(GeN(<<"largest_ext_fn">>, 8),
     <<Open("addr_size_core_count_info"),
       R(<<"%function_80000008">>),
       T(<<"bits_t">>),
       When(Eq(Up("vendor"), "amd"),
        <<F({"bits_t"}, {<<"%function_80000008">>}, <<"guest_phys_addr_size">>),
          V({"int_t"}, {<<"%function_80000008">>}, "apic_id_core_id_size", NoKeys),
          F({"int_t"}, {<<"%function_80000008">>}, <<"nc">>),
          If(EqN(<<"apic_id_core_id_size">>, 0),
           <<Read(<<"nc">>), F({"int_t"}, {}, <<"mnc">>)>>,
           <<Read(<<"apic_id_core_id_size">>), F({"int_t"}, {}, <<"mnc">>)>>)>>),
       F({"bits_t"}, {<<"%function_80000008">>},
         <<"lin_addr_size", "phys_addr_size">>),
       Close>>)>>

cpuid_functions_8000000A_1A ==
  <<When(GeN(<<"largest_ext_fn">>, 10),
     <<Open("svn_rev_feature_ident"),
       R(<<"%function_8000000A">>),
       F({"int_t", "yesno_t"}, {<<"%function_8000000A">>},
         <<"svm_rev", "nasid", "ssse3_sse5_dis", "nrips", "svml", "lbr_virt",
           "np">>),
       Close>>),
    When(GeN(<<"largest_ext_fn">>, 25),
     <<Open("tlb_1gb_page_identifiers"),
       R(<<"%function_80000019">>),
       T(<<"assoc_t", "entries_t">>),
       F({"assoc_t", "entries_t"}, {<<"%function_80000019">>},
         <<"l1_d_tlb_1g_assoc", "l1_d_tlb_1g_size", "l1_i_tlb_1g_assoc",
           "l1_i_tlb_1g_size", "l2_d_tlb_1g_assoc", "l2_d_tlb_1g_size",
           "l2_i_tlb_1g_assoc", "l2_i_tlb_1g_size">>),
       Close>>),
    When(GeN(<<"largest_ext_fn">>, 26),
     <<Open("perf_opt_identifiers"),
       R(<<"%function_8000001A">>),
       F({"yesno_t"}, {<<"%function_8000001A">>},
         <<"movu", "fp128">>),
       Close>>)>>

msr_first ==
  <<Bookmark("$msr"),
    F({"hex64_t"}, {Anon}, <<"TSC">>),
    Open("apic"),
    R(<<"%APIC_BASE">>),
    F({"addr64_t", "yesno_t"}, {<<"%APIC_BASE">>},
      <<"BSP", "ApicEn", "ApicBar">>),
    R(<<"%EBL_CR_POWERON">>),
    F({"int_t"}, {<<"%EBL_CR_POWERON">>}, <<"ApicClusterID">>),
    Close,
    F({"hex64_t"}, {Anon}, <<"PATCH_LEVEL">>),
    Open("mtrr"),
    R(<<"%MTRRCap">>),
    F({"yesno_t"}, {<<"%MTRRCap">>}, <<"MtrrCapFix">>),
    V({"int_t"}, {<<"%MTRRCap">>}, "MtrrCapVCnt", NoKeys),
    F({"yesno_t"}, {<<"%MTRRCap">>}, <<"MtrrCapWc">>),
    R(<<"%MTRRDefType">>),
    F({"enabledisable_t", "hex8_t"}, {<<"%MTRRDefType">>},
      <<"MTRRDefTypeFixEn", "MTRRDefTypeEn", "MTRRDefMemType">>)>>

\* one name for the eight fields of each register
FixedMtrr(r) ==
  <<R(<<"%MTRRFix" \o r>>), F({"mtrr_type_t"}, {<<"%MTRRFix" \o r>>}, <<"MtrrFix" \o r>>)>>
msr_fixed_mtrr ==
  <<Open("fixed")>>
  \o Each(<<"64K_00000", "16K_80000", "16K_A0000", "4K_C0000", "4K_C8000",
            "4K_D0000", "4K_D8000", "4K_E0000", "4K_E8000", "4K_F0000", "4K_F8000">>,
          FixedMtrr)
  \o <<Close>>

msr_variable_mtrr ==
  <<CallWith("msr_variable_mtrrs", <<"MtrrCapVCnt">>)>>

msr_variable_mtrrs(n) ==
  Repeat(n,
   <<OpenNext("variable"),
     R(<<"%MTRRPhysBase", "%MTRRPhysMask">>),
     V({"yesno_t"}, {<<"%MTRRPhysMask">>}, "Valid", YesNo),
     When(Bool(<<"Valid">>),
      <<F({"addr64_t", "hex64_t", "mtrr_type_t"},
          {<<"%MTRRPhysBase">>, <<"%MTRRPhysMask">>},
          <<"Type", "PhysBase", "PhysMask">>)>>),
     Close, Read(<<"MtrrCapVCnt">>)>>)

msr_other ==
  <<Close,
    Open("sysenter"),
    R(<<"%SYSENTER_CS", "%SYSENTER_ESP", "%SYSENTER_EIP">>),
    F({"addr32_t", "hex16_t"},
      {<<"%SYSENTER_CS">>, <<"%SYSENTER_ESP">>, <<"%SYSENTER_EIP">>},
      <<"SYSENTER_CS", "SYSENTER_ESP", "SYSENTER_EIP">>),
    Close,
    R(<<"%DebugCtl">>),
    F({"addr64_t", "enabledisable_t"}, {<<"%DebugCtl">>, Anon},
      <<"LBR", "BTF", "LastBranchFromIP", "LastBranchToIP",
        "LastExceptionFromIP", "LastExceptionToIP">>),
    R(<<"%PAT">>),
    F({"pat_type_t"}, {<<"%PAT">>}, <<"PA0", "PA1", "PA2", "PA3", "PA4",
      "PA5", "PA6", "PA7">>)>>

-----------------------------------------------------------------------------
cpu_discovered(name) ==
  <<Open(name), Bookmark("$cpu"),
    Call("CPUID_SCOPE", "cpuid"), Close, Call("MSR_SCOPE", "msr"), Close,
    Close,
    AliasNext("cpu", <<name>>)>>

CPUID_SCOPE(name) ==
  <<OpenBound(name)>>
  \o Run(<<"cpuid_functions_0_1", "cpuid_function_2", "cpuid_function_4",
           "cpuid_functions_5_A", "cpuid_function_B", "cpuid_functions_80000000_4",
           "cpuid_function_80000005", "cpuid_function_80000006",
           "cpuid_functions_80000007_8", "cpuid_functions_8000000A_1A">>)

MSR_SCOPE(name) ==
  <<OpenBound(name)>>
  \o Run(<<"msr_first", "msr_fixed_mtrr", "msr_variable_mtrr", "msr_other">>)

CpuBody(fn, arg) ==
  CASE fn = "cpu_discovered" -> cpu_discovered(arg)
    [] fn = "CPUID_SCOPE" -> CPUID_SCOPE(arg)
    [] fn = "MSR_SCOPE" -> MSR_SCOPE(arg)
    [] fn = "cache_descriptors" -> cache_descriptors(arg)
    [] fn = "cache_info" -> cache_info(arg)
    [] fn = "topo_info" -> topo_info(arg)
    [] fn = "msr_variable_mtrrs" -> msr_variable_mtrrs(arg)
    [] fn = "cpuid_functions_0_1" -> cpuid_functions_0_1
    [] fn = "cpuid_function_2" -> cpuid_function_2
    [] fn = "cpuid_function_4" -> cpuid_function_4
    [] fn = "cpuid_functions_5_A" -> cpuid_functions_5_A
    [] fn = "cpuid_function_B" -> cpuid_function_B
    [] fn = "cpuid_functions_80000000_4" -> cpuid_functions_80000000_4
    [] fn = "cpuid_function_80000005" -> cpuid_function_80000005
    [] fn = "cpuid_function_80000006" -> cpuid_function_80000006
    [] fn = "cpuid_functions_80000007_8" -> cpuid_functions_80000007_8
    [] fn = "cpuid_functions_8000000A_1A" -> cpuid_functions_8000000A_1A
    [] fn = "msr_first" -> msr_first
    [] fn = "msr_fixed_mtrr" -> msr_fixed_mtrr
    [] fn = "msr_variable_mtrr" -> msr_variable_mtrr
    [] fn = "msr_other" -> msr_other
    [] fn = "further_queries" -> further_queries("cache_descriptor_t", arg)
    [] fn = "further_xeon_queries" -> further_queries("cache_descriptor_xeon_t", arg)

CpuSections ==
  {"cpu_discovered", "CPUID_SCOPE", "MSR_SCOPE", "cache_descriptors",
   "cache_info", "topo_info", "msr_variable_mtrrs", "cpuid_functions_0_1",
   "cpuid_function_2", "cpuid_function_4", "cpuid_functions_5_A",
   "cpuid_function_B", "cpuid_functions_80000000_4", "cpuid_function_80000005",
   "cpuid_function_80000006", "cpuid_functions_80000007_8",
   "cpuid_functions_8000000A_1A", "msr_first", "msr_fixed_mtrr",
   "msr_variable_mtrr", "msr_other", "further_queries", "further_xeon_queries"}
===============================================================================
