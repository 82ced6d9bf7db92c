------------------------------- MODULE PciCode --------------------------------
(***************************************************************************)
(* The PCI devices: devices/pci/pci.cc, the types, and generic_device.cc,  *)
(* the header, the base address registers, and the lists of capabilities   *)
(* with the layout of each.  An operator has the name of the function that *)
(* it translates; of a capability the address is left out.                 *)
(***************************************************************************)
EXTENDS DeviceCode, FiniteSetsExt

(* pci_datatypes_init(): the types at the root, and the keys of those that *)
(* are compared or evaluated.                                              *)
PciTypes ==
  {"pci_vendor_t", "pci_class_t", "pci_bar_t", "pci_capability_t", "pcie_capability_t"}
  \cup {"pci_subclass_" \o c : c \in
         {"pre_classcode", "mass_storage", "network", "display", "multimedia",
          "memory", "bridge"}}

ClassKeys ==
  [pre_classcode |-> 0, mass_storage |-> 1, network |-> 2, display |-> 3,
   multimedia |-> 4, memory |-> 5, bridge |-> 6]

BarKeys == [bar0 |-> 0, bar1 |-> 1, bar2 |-> 2, bar3 |-> 3, bar4 |-> 4, bar5 |-> 5]

CapabilityKeys ==
  [unknown |-> 0, power_mgmt |-> 1, agp |-> 2, vpd |-> 3, slot_id |-> 4, msi |-> 5,
   hot_swap |-> 6, pcix |-> 7, ht |-> 8, vendor |-> 9, usb2_dbg_port |-> 10,
   resource_ctrl |-> 11, hot_plug |-> 12, ssid |-> 13, agp8x |-> 14, secure |-> 15,
   pcie |-> 16, msix |-> 17, sata |-> 18, af |-> 19]

ExtCapabilityKeys ==
  [unknown |-> 0, aer |-> 1, vchannel |-> 2, serial_num |-> 3, power_budget |-> 4,
   root_link_decl |-> 5, root_internal_link_ctrl |-> 6,
   root_event_collector_endpoint_assoc |-> 7, multi_func_vchannel |-> 8, vc2 |-> 9,
   rcrb_header |-> 10, vendor_specific |-> 11, acs |-> 13]

\* of the registers %PCI.000 to %PCI.ffc one of each half
ConfigSpace         == <<"%PCI.000">>
ExtendedConfigSpace == <<"%PCI.100">>

-----------------------------------------------------------------------------
\* The values of a BAR are those of its name.
BAR(name) ==
  <<Open(name),
    R(<<"%lower">>),
    VFrom({}, {<<"%lower">>}, "type", [mem |-> 0, io |-> 1], name \o ".type"),
    When(Eq(<<"type">>, "mem"),
     <<VFrom({}, {<<"%lower">>}, "width", [bits32 |-> 0, bits20 |-> 1,
                                           bits64 |-> 2],
             name \o ".width"),
       F({"yesno_t"}, {<<"%lower">>}, <<"prefetch">>)>>),
    If(Eq(<<"type">>, "io"),
     <<V({"addr16_t"}, {<<"%lower">>}, "address", NoKeys)>>,
     <<If(EqAny(<<"width">>, <<"bits32", "bits20">>),
        <<V({"addr32_t"}, {<<"%lower">>}, "address", NoKeys)>>,
        <<R(<<"%upper">>),
          V({"addr64_t"}, {<<"%upper">>, <<"%lower">>}, "address", NoKeys)>>)>>),
    Close>>

ht_link_control ==
  <<R(<<"%control">>),
    Open("control"),
    F({"hex4_t", "yesno_t"}, {Up("%control")},
      <<"SrcIdEn", "CFIEn", "CST", "CFEr", "LinkFail", "InitCmp", "EOC",
        "TXOff", "CRCErr", "IsocEn", "LSEn", "ExtCTL", "b64En">>),
    Close>>

ht_link_config ==
  <<T(<<"ht_link_width_t">>),
    R(<<"%config">>),
    Open("config"),
    F({"ht_link_width_t", "yesno_t"}, {Up("%config")},
      <<"MaxLinkWidthIn", "DwFcIn", "MaxLinkWidthOut", "DwFcOut",
        "LinkWidthIn", "DwFcInEn", "LinkWidthOut", "DwFcOutEn">>),
    Close>>

ht_link_freq_err ==
  <<T(<<"ht_link_freq_t">>),
    R(<<"%freq_err">>),
    F({"ht_link_freq_t", "yesno_t"}, {<<"%freq_err">>},
      <<"Freq", "ProtoErr", "OverErr", "EOCErr", "CTLTimeout">>)>>

ht_link_freq_cap ==
  <<T(<<"ht_link_freq_cap_t">>),
    R(<<"%freq_cap">>),
    F({"ht_link_freq_cap_t"}, {<<"%freq_cap">>}, <<"FreqCap">>)>>

ht_error_handling ==
  <<R(<<"%error">>),
    Open("error"),
    F({"yesno_t"}, {Up("%error")}, <<"proto_flood", "over_flood",
      "proto_fatal", "over_fatal", "eoc_fatal", "resp_fatal", "crc_fatal",
      "serr_fatal", "chain_fail", "resp_err", "proto_nonfatal",
      "over_nonfatal", "eoc_nonfatal", "resp_nonfatal", "crc_nonfatal",
      "serr_nonfatal">>),
    Close>>

ht_slave_link(name) ==
  <<Open(name), Call("ht_link_control", 0), Call("ht_link_config", 0),
    Call("ht_link_freq_err", 0), Call("ht_link_freq_cap", 0), Close>>

ht_slave_capability ==
  <<R(<<"%command">>),
    F({"int_t", "yesno_t"}, {<<"%command">>},
      <<"base_unit_id", "unit_count", "master", "default_direction",
        "drop_on_uninit">>),
    Call("ht_slave_link", "link0"),
    Call("ht_slave_link", "link1"),
    R(<<"%rev">>),
    F({"int_t"}, {<<"%rev">>}, <<"MajorRev", "MinorRev">>),
    R(<<"%feature">>),
    Open("feature"),
    F({"yesno_t"}, {Up("%feature")}, <<"iso_flow_ctrl", "ldtstop",
      "crc_test_mode", "extended_ctl_time", "bits64_addressing",
      "unit_id_reorder_dis", "source_id">>),
    Close,
    F({"hex16_t"}, {Anon}, <<"scratchpad">>),
    Call("ht_error_handling", 0),
    F({"addr16_t", "int_t"}, {Anon}, <<"mem_base_hi", "mem_limit_hi", "bus">>)>>

ht_host_link(name) ==
  <<Open(name), Call("ht_link_control", 0), Call("ht_link_config", 0),
    Call("ht_link_freq_err", 0), Call("ht_link_freq_cap", 0), Close>>

ht_host_capability ==
  <<R(<<"%command">>),
    F({"int_t", "yesno_t"}, {<<"%command">>},
      <<"warm_reset", "dbl_ended", "device", "chain_side", "host_hide",
        "act_slave", "in_eoc_err", "drop_on_uninit">>),
    Call("ht_host_link", "link"),
    R(<<"%rev">>),
    F({"int_t"}, {<<"%rev">>}, <<"major_rev", "minor_rev">>),
    R(<<"%feature">>),
    Open("feature"),
    F({"yesno_t"}, {Up("%feature")}, <<"iso_flow_ctrl", "ldtstop",
      "crc_test_mode", "extended_ctl_time", "bits64_addressing",
      "unit_id_reorder_dis", "source_id">>),
    V({"yesno_t"}, {Up("%feature")}, "ext_regs", YesNo),
    F({"yesno_t"}, {Up("%feature")}, <<"upstream_cfg">>),
    Close,
    When(Bool(<<"feature", "ext_regs">>),
     <<F({"hex16_t"}, {Anon}, <<"scratchpad">>),
       Call("ht_error_handling", 0),
       F({"addr16_t"}, {Anon}, <<"mem_base_hi", "mem_limit_hi">>)>>)>>

ht_revision_capability ==
  <<R(<<"%rev">>),
    F({"int_t"}, {<<"%rev">>}, <<"major_rev", "minor_rev">>)>>

ht_extended_config_capability ==
  <<R(<<"%address">>),
    F({}, {<<"%address">>}, <<"type">>),
    F({"hex32_t", "hex_t", "int_t"}, {<<"%address">>, Anon},
      <<"bus", "device", "function", "register", "data">>)>>

ht_address_mapping_capability ==
  <<R(<<"%command">>),
    V({"int_t"}, {<<"%command">>}, "num_dma", NoKeys),
    F({"int_t"}, {<<"%command">>}, <<"io_size">>),
    V({}, {<<"%command">>}, "map_type", [bits40 |-> 0, bits64 |-> 1]),
    When(EqAny(<<"map_type">>, <<"bits40">>),
     <<R(<<"%sec_non_prefetch">>),
       Open("sec_non_prefetch"),
       F({"addr64_t", "yesno_t"}, {Up("%sec_non_prefetch")},
         <<"enable", "isoch", "noncoherent", "compat", "base">>),
       Close,
       R(<<"%sec_prefetch">>),
       Open("sec_prefetch"),
       F({"addr64_t", "yesno_t"}, {Up("%sec_prefetch")},
         <<"enable", "isochronous", "noncoherent", "compat", "base">>),
       Close,
       CallWith("ht_dma", <<"num_dma">>)>>)>>

ht_dma(n) ==
  Repeat(n,
   <<OpenNext("dma"),
     R(<<"%lower", "%upper">>),
     F({"addr64_t", "yesno_t"}, {<<"%lower">>},
       <<"enable", "isochronous", "noncoherent", "pri_base", "sec_base",
         "sec_limit">>),
     Close>>)

ht_msi_mapping_capability ==
  <<R(<<"%flags">>),
    F({"yesno_t"}, {<<"%flags">>}, <<"en">>),
    V({"yesno_t"}, {<<"%flags">>}, "fixed", YesNo),
    When(Not(Bool(<<"fixed">>)),
     <<R(<<"%lower", "%upper">>),
       F({"addr64_t"}, {<<"%upper">>, <<"%lower">>}, <<"address">>)>>)>>

power_mgmt_capability ==
  <<R(<<"%pmc">>),
    F({}, {<<"%pmc">>}, <<"version">>),
    F({"yesno_t"}, {<<"%pmc">>}, <<"clock", "dsi", "aux_current",
      "d1_support", "d2_support", "pme_support">>),
    R(<<"%pmcsr">>),
    F({"yesno_t"}, {<<"%pmcsr">>}, <<"power_state", "no_soft_reset", "pme_en",
      "pme_status">>),
    R(<<"%pmcsr_bse">>),
    V({"yesno_t"}, {<<"%pmcsr_bse">>}, "bpcc_en", YesNo),
    When(Bool(<<"bpcc_en">>),
     <<F({"yesno_t"}, {<<"%pmcsr_bse">>}, <<"b2_b3">>)>>),
    F({"hex4_t"}, {<<"%pmcsr">>}, <<"data_select", "data_scale">>),
    R(<<"%data">>),
    F({"hex8_t"}, {<<"%data">>}, <<"data">>)>>

slot_id_capability ==
  <<R(<<"%slot">>),
    F({"int_t", "yesno_t"}, {<<"%slot">>, Anon},
      <<"nslots", "first", "chassis">>)>>

msi_capability ==
  <<R(<<"%msg_ctrl">>),
    F({"yesno_t"}, {<<"%msg_ctrl">>}, <<"msi_enable">>),
    V({}, {<<"%msg_ctrl">>}, "multi_msg_cap", [vec1 |-> 0, vec2 |-> 1,
                                               vec4 |-> 2, vec8 |-> 3,
                                               vec16 |-> 4, vec32 |-> 5]),
    F({}, {<<"%msg_ctrl">>}, <<"multi_msg_en">>),
    V({"yesno_t"}, {<<"%msg_ctrl">>}, "cap64", YesNo),
    V({"yesno_t"}, {<<"%msg_ctrl">>}, "mask_per_vec", YesNo),
    R(<<"%msg_addr">>),
    If(Not(Bool(<<"cap64">>)),
     <<F({"addr32_t", "hex16_t"}, {<<"%msg_addr">>, Anon},
         <<"msg_addr", "msg_data">>),
       When(Bool(<<"mask_per_vec">>),
        <<RW("%mask", 32), RW("%pending", 32)>>)>>,
     <<R(<<"%msg_addr_hi">>),
       F({"addr64_t", "hex16_t"},
         {<<"%msg_addr_hi">>, <<"%msg_addr">>, Anon},
         <<"msg_addr", "msg_data">>),
       When(Bool(<<"mask_per_vec">>),
        <<RW("%mask", 32), RW("%pending", 32)>>)>>),
    When(Bool(<<"mask_per_vec">>),
     <<CallWith("msi_vectors", <<"multi_msg_cap">>)>>)>>

MsiVector(i) ==
  <<Bit(<<"%mask">>, i), FNext({"yesno_t"}, {<<"%mask">>}, "mask"),
    Bit(<<"%pending">>, i), FNext({"yesno_t"}, {<<"%pending">>}, "pend")>>
msi_vectors(cap) == Each([i \in 1..(2^cap) |-> i - 1], MsiVector)

msix_capability ==
  <<R(<<"%msg_ctrl">>),
    F({"yesno_t"}, {<<"%msg_ctrl">>}, <<"msix_enable">>),
    V({"int_t"}, {<<"%msg_ctrl">>}, "table_size", NoKeys),
    F({"yesno_t"}, {<<"%msg_ctrl">>}, <<"func_mask">>),
    R(<<"%table_ptr">>),
    V({"pci_bar_t"}, {<<"%table_ptr">>}, "table_bir", BarKeys),
    V({"hex_t"}, {<<"%table_ptr">>}, "table_offset", NoKeys),
    CallWith("msix_table", <<"table_size">>)>>

\* a register of pending bits, of up to 64 vectors from the first one
PendingBits(first, last) ==
  <<RNext("%pending"),
    F({"yesno_t"}, {<<"%pending", "[-1]">>},
      [j \in 1..Min({64, last + 1 - first}) |-> "pending" \o ToString(first + j - 1)])>>

\* the table and the pending bits lie in the memory of a BAR
msix_table(last) ==
  <<Read(<<"table_size">>),
    ReadBy(<<"$pci">>, <<"table_bir">>, <<"address">>), Read(<<"table_offset">>),
    OpenBound("table")>>
  \o Repeat(last + 1,
   <<OpenNext("entry"),
     R(<<"%msg_addr", "%msg_upper_addr">>),
     F({"addr64_t", "hex_t"}, {<<"%msg_upper_addr">>, <<"%msg_addr">>, Anon},
       <<"address", "msg_data">>),
     R(<<"%vector_ctrl">>),
     F({"yesno_t"}, {<<"%vector_ctrl">>}, <<"mask">>),
     Close>>)
  \o <<Close,
    R(<<"%pba_ptr">>),
    V({"pci_bar_t"}, {<<"%pba_ptr">>}, "pba_bir", BarKeys),
    F({"hex_t"}, {<<"%pba_ptr">>}, <<"pba_offset">>),
    ReadBy(<<"$pci">>, <<"pba_bir">>, <<"address">>), Read(<<"table_offset">>),
    OpenBound("pba")>>
  \o FlattenSeq([q \in 1..((last + 64) \div 64) |-> PendingBits(64 * (q - 1), last)])
  \o <<Close>>

ht_capability ==
  <<R(<<"%subcap">>),
    V({}, {<<"%subcap">>}, "is_interface", [no |-> 1, yes |-> 0]),
    If(Eq(<<"is_interface">>, "yes"),
     <<V({}, {<<"%subcap">>}, "subtype", [slave_primary |-> 0,
                                          host_secondary |-> 1]),
       Case(<<"subtype">>,
        [slave_primary |->
           <<Call("ht_slave_capability", 0)>>,
         host_secondary |->
           <<Call("ht_host_capability", 0)>>],
        <<>>)>>,
     <<V({}, {<<"%subcap">>}, "subtype", [switch |-> 8, intr_discovery |-> 16,
                                          revision |-> 17,
                                          unit_id_clump |-> 18,
                                          extended_config |-> 19,
                                          address_mapping |-> 20,
                                          msi_mapping |-> 21,
                                          direct_route |-> 22, vc_set |-> 23,
                                          retry_mode |-> 24, x86_encode |-> 25,
                                          gen3 |-> 26, function_extend |-> 27,
                                          power_mgmt |-> 28]),
       Case(<<"subtype">>,
        [revision |->
           <<Call("ht_revision_capability", 0)>>,
         extended_config |->
           <<Call("ht_extended_config_capability", 0)>>,
         address_mapping |->
           <<Call("ht_address_mapping_capability", 0)>>,
         msi_mapping |->
           <<Call("ht_msi_mapping_capability", 0)>>],
        <<>>)>>)>>

ssid_capability ==
  <<F({"hex16_t", "pci_vendor_t"}, {Anon},
      <<"ssvid", "ssid">>)>>

pcie_capability ==
  <<R(<<"%pcie_caps">>),
    V({"int_t"}, {<<"%pcie_caps">>}, "version", NoKeys),
    V({}, {<<"%pcie_caps">>}, "type", [endpoint |-> 0, legacy_endpoint |-> 1,
                                       root_port |-> 4,
                                       upstream_switch_port |-> 5,
                                       downstream_switch_port |-> 6,
                                       pcie_pci_bridge |-> 7,
                                       pci_pcie_bridge |-> 8,
                                       root_integrated_endpoint |-> 9,
                                       root_event_collector |-> 10]),
    When(EqAny(<<"type">>, <<"root_port", "downstream_switch_port">>),
     <<V({"yesno_t"}, {<<"%pcie_caps">>}, "slot_impl", YesNo)>>),
    F({"int_t", "yesno_t"}, {<<"%pcie_caps">>},
      <<"intr_msg_num", "tcs">>),
    T(<<"pcie_l0s_latency_t", "pcie_l1_latency_t", "pcie_width_t",
        "pcie_link_speed_t">>)>>

pcie_device ==
  <<Open("device"),
    R(<<"%dev_caps", "%dev_control", "%dev_status">>),
    T(<<"pcie_payload_size_t">>),
    F({"pcie_payload_size_t", "yesno_t"},
      {<<"%dev_caps">>, <<"%dev_control">>},
      <<"max_payload_cap", "max_payload", "max_read", "phantom_funcs_cap",
        "phantom_funcs", "ext_tag_field_cap", "ext_tag_field">>),
    When(EqAny(Up("type"), <<"endpoint", "legacy_endpoint",
           "root_integrated_endpoint">>),
     <<F({"pcie_l0s_latency_t", "pcie_l1_latency_t", "yesno_t"},
         {<<"%dev_caps">>},
         <<"max_l0s_lat", "max_l1_lat", "func_reset_cap">>),
       V({"yesno_t"}, {<<"%dev_control">>}, "func_reset", YesNo)>>),
    When(Eq(Up("type"), "upstream_switch_port"),
     <<F({"int_t"}, {<<"%dev_caps">>},
         <<"power_limit_value", "power_limit_scale">>)>>),
    F({"yesno_t"},
      {<<"%dev_caps">>, <<"%dev_control">>, <<"%dev_status">>},
      <<"role_based_err_cap", "corr_err_report", "corr_err_det",
        "nonfatal_err_report", "nonfatal_err_det", "fatal_err_report",
        "fatal_err_det", "unsup_req_report", "unsup_req_det", "relax",
        "aux_pm", "aux_pm_det", "en_no_snoop">>),
    When(And(Not(Defined(<<"func_reset">>)), Eq(<<"$pci", "class">>, "bridge")),
     <<F({"yesno_t"}, {<<"%dev_control">>}, <<"bridge_retry_en">>)>>),
    F({"yesno_t"}, {<<"%dev_status">>}, <<"txn_pend">>),
    When(GeN(Up("version"), 2),
     <<R(<<"%dev_caps2", "%dev_control2", "%dev_status2">>),
       T(<<"pcie_completion_timeout_t">>),
       F({"pcie_completion_timeout_t", "yesno_t"},
         {<<"%dev_caps2">>, <<"%dev_control2">>},
         <<"completion_timeout_ranges", "completion_timeout",
           "completion_timeout_disable_en", "completion_timeout_disable">>)>>),
    Close>>

pcie_link ==
  <<When(EqAny(<<"type">>, <<"endpoint", "legacy_endpoint", "root_port",
           "upstream_switch_port", "downstream_switch_port",
           "pcie_pci_bridge", "pci_pcie_bridge">>),
     <<Open("link"),
       R(<<"%link_caps", "%link_control", "%link_status">>),
       F({"int_t", "pcie_l0s_latency_t", "pcie_l1_latency_t", "pcie_link_speed_t",
           "pcie_width_t", "yesno_t"},
         {<<"%link_caps">>, <<"%link_status">>, <<"%link_control">>},
         <<"port_number", "supported_speeds", "speed", "max_width", "width",
           "aspm_support", "aspm_ctl", "l0s_exit_latency", "l1_exit_latency",
           "clock_pm_cap", "clock_pm_en", "surprise_down_err_report_cap">>),
       V({"yesno_t"}, {<<"%link_caps">>}, "data_link_active_report_cap", YesNo),
       When(Bool(<<"data_link_active_report_cap">>),
        <<F({"yesno_t"}, {<<"%link_status">>}, <<"data_link_active">>)>>),
       V({"yesno_t"}, {<<"%link_caps">>}, "link_bw_notify_cap", YesNo),
       When(Bool(<<"link_bw_notify_cap">>),
        <<F({"yesno_t"}, {<<"%link_status">>},
            <<"link_bw_status", "link_auto_bw_status">>)>>),
       F({}, {<<"%link_control">>}, <<"rcb">>),
       When(EqAny(Up("type"), <<"root_port", "downstream_switch_port",
              "pci_pcie_bridge">>),
        <<F({"yesno_t"}, {<<"%link_control">>},
            <<"link_disable", "link_retrain", "link_bw_mgmt_intr_en",
              "link_auto_bw_mgmt_intr_en">>)>>),
       F({"yesno_t"}, {<<"%link_control">>},
         <<"common_clock", "extended_sync", "hw_auto_width_dis">>),
       When(EqAny(Up("type"), <<"root_port", "downstream_switch_port",
              "pci_pcie_bridge">>),
        <<F({"yesno_t"}, {<<"%link_status">>}, <<"link_training">>)>>),
       F({"yesno_t"}, {<<"%link_status">>}, <<"slot_clock">>),
       When(GeN(Up("version"), 2),
        <<R(<<"%link_caps2", "%link_control2", "%link_status2">>),
          F({"hex4_t", "pcie_link_speed_t", "yesno_t"},
            {<<"%link_control2">>, <<"%link_status2">>},
            <<"target_link_speed", "enter_compliance", "hw_auto_speed_dis",
              "selecatble_deemphasis", "transit_margin",
              "enter_mod_compliance", "compliance_sos",
              "compliance_deemphasis", "current_deemphasis">>)>>),
       Close>>)>>

pcie_slot ==
  <<When(And(Defined(<<"slot_impl">>), Bool(<<"slot_impl">>)),
     <<Open("slot"),
       R(<<"%slot_caps", "%slot_control", "%slot_status">>),
       F({"int_t"}, {<<"%slot_caps">>}, <<"slot_number">>),
       V({"yesno_t"}, {<<"%slot_caps">>}, "attn_button", YesNo),
       When(Bool(<<"attn_button">>),
        <<F({"yesno_t"}, {<<"%slot_control">>, <<"%slot_status">>},
            <<"attn_button_en", "attn_button_press">>)>>),
       V({"yesno_t"}, {<<"%slot_caps">>}, "power_controller", YesNo),
       When(Bool(<<"power_controller">>),
        <<F({"yesno_t"}, {<<"%slot_control">>, <<"%slot_status">>},
            <<"power_controller_ctrl", "power_fault_en", "power_fault_det">>)>>),
       V({"yesno_t"}, {<<"%slot_caps">>}, "mrl_sensor", YesNo),
       When(Bool(<<"mrl_sensor">>),
        <<F({"yesno_t"}, {<<"%slot_control">>, <<"%slot_status">>},
            <<"mrl_sensor_en", "mrl_sensor_change", "mrl_sensor_state">>)>>),
       V({"yesno_t"}, {<<"%slot_caps">>}, "attn_indicator", YesNo),
       When(Bool(<<"attn_indicator">>),
        <<F({}, {<<"%slot_control">>}, <<"attn_indicator_ctrl">>)>>),
       V({"yesno_t"}, {<<"%slot_caps">>}, "power_indicator", YesNo),
       When(Bool(<<"power_indicator">>),
        <<F({}, {<<"%slot_control">>}, <<"power_indicator_ctrl">>)>>),
       V({"yesno_t"}, {<<"%slot_caps">>}, "hotplug_capable", YesNo),
       When(Bool(<<"hotplug_capable">>),
        <<F({"yesno_t"},
            {<<"%slot_caps">>, <<"%slot_control">>, <<"%slot_status">>},
            <<"hotplug_surprise", "presence_detect_en",
              "presence_detect_change", "presence_detect_state",
              "hot_plug_intr_en">>),
          V({"yesno_t"}, {<<"%slot_caps">>}, "no_cmd_complete", YesNo),
          When(Not(Bool(<<"no_cmd_complete">>)),
           <<F({"yesno_t"}, {<<"%slot_control">>, <<"%slot_status">>},
               <<"cmd_complete_intr_en", "cmd_completed">>)>>)>>),
       V({"yesno_t"}, {<<"%slot_caps">>}, "electromech_lock", YesNo),
       When(Bool(<<"electromech_lock">>),
        <<F({"int_t"}, {<<"%slot_control">>, <<"%slot_status">>},
            <<"electromech_lock_ctrl", "electromech_lock_status">>)>>),
       F({"int_t"}, {<<"%slot_caps">>},
         <<"slot_power_limit", "slot_power_scale">>),
       When(Bool(<<"..", "link", "data_link_active_report_cap">>),
        <<F({"yesno_t"}, {<<"%slot_control">>, <<"%slot_status">>},
            <<"data_link_state_change_en", "data_link_state_change">>)>>),
       When(GeN(Up("version"), 2),
        <<R(<<"%link_caps2", "%link_control2", "%link_status2">>)>>),
       Close>>)>>

pcie_root ==
  <<When(EqAny(<<"type">>, <<"root_event_collector", "root_port">>),
     <<Open("root"),
       R(<<"%root_control", "%root_caps", "%root_status">>),
       F({"hex16_t", "yesno_t"},
         {<<"%root_control">>, <<"%root_caps">>, <<"%root_status">>},
         <<"serr_on_cerr", "serr_on_nferr", "serr_on_ferr", "pme_intr_en",
           "crs_visible_cap", "crs_visible_en", "pme_status", "pme_pending",
           "pme_requester">>),
       Close>>)>>

UncorrectableError(n) ==
  <<Open(n),
    F({"fatal_t", "yesno_t"},
      {Up("%error_status"), Up("%error_mask"), Up("%error_severity")},
      <<"status", "masked", "severity">>),
    Close>>
CorrectableError(n) ==
  <<Open(n),
    F({"yesno_t"}, {Up("%error_status"), Up("%error_mask")}, <<"status", "masked">>),
    Close>>
aer_ecapability ==
  <<T(<<"fatal_t">>),
    Open("uncorrectable"),
    R(<<"%error_status", "%error_mask", "%error_severity">>)>>
  \o Each(<<"data_link_proto_err", "surprise_down_err", "poisoned_tlp",
            "flow_ctrl_proto_err", "completion_timeout", "completer_abort",
            "unexpected_completion", "receiver_overflow", "malformed_tlp",
            "ecrc_err", "unsupported_request_err", "acs_violation">>,
          UncorrectableError)
  \o <<Close,
    Open("correctable"),
    R(<<"%error_status", "%error_mask">>)>>
  \o Each(<<"receiver_err", "bad_tlp", "bad_dllp", "replay_num_rollover",
            "replay_timer_timeout", "advisory_nf_err">>, CorrectableError)
  \o <<Close,
    R(<<"%caps_control">>),
    F({"hex8_t", "yesno_t"}, {<<"%caps_control">>},
      <<"first_err_ptr", "ecrc_generation_cap", "ecrc_generation_en",
        "ecrc_check_cap", "ecrc_check_en">>),
    R(<<"%header_log_0", "%header_log_1", "%header_log_2", "%header_log_3">>),
    F({"hex128_t"},
      {<<"%header_log_3">>, <<"%header_log_2">>, <<"%header_log_1">>, <<"%header_log_0">>},
         <<"header_log">>),
    When(EqAny(<<"$pci", "capability.pcie", "[0]", "type">>, <<"root_event_collector",
           "root_port">>),
     <<R(<<"%root_error_command", "%root_error_status">>),
       F({"fatal_t", "hex8_t", "yesno_t"},
         {<<"%root_error_command">>, <<"%root_error_status">>},
         <<"correctable_err_en", "correctable_err_rcvd",
           "correctable_err_multi", "nonfatal_err_en", "nonfatal_rcvd",
           "fatal_err_en", "fatal_rcvd", "uncorrectable_err_rcvd",
           "uncorrectable_err_multi", "first_uncorrectable", "intr_msg_num">>),
       R(<<"%error_src_id">>),
       F({"hex16_t"}, {<<"%error_src_id">>},
         <<"correctable_src_id", "uncorrectable_src_id">>)>>)>>

\* The list of capabilities, then that of the extended ones.  Each is a loop
\* over the pointer read from the block before.
explore_capabilities ==
  <<When(Bool(<<"status", "caps">>),
     <<V({"hex8_t"}, {Anon}, "capptr", NoKeys),
       CallWith("capabilities", <<"capptr">>)>>),
    When(And(Or(Defined(<<"$pci", "capability.pcie">>),
                 Defined(<<"$pci", "capability.pcix">>)),
             And(Defined(<<"$pci", "%PCI.100">>), Holds("header.100"))),
     <<Call("ecapabilities", 256)>>)>>

capabilities(ptr) ==
  IF ptr \in {0, 255} THEN <<>>
  ELSE <<OpenNext("capability"),
         F({"hex8_t"}, {}, <<"offset">>),
         VFrom({"pci_capability_t"}, {Anon}, "id", CapabilityKeys,
                "id@" \o ToString(ptr)),
         VFrom({"hex8_t"}, {Anon}, "next", NoKeys, "next@" \o ToString(ptr)),
         Case(<<"id">>,
          [power_mgmt |-> <<Call("power_mgmt_capability", 0)>>,
           slot_id |-> <<Call("slot_id_capability", 0)>>,
           msi |-> <<Call("msi_capability", 0)>>,
           msix |-> <<Call("msix_capability", 0)>>,
           ht |-> <<Call("ht_capability", 0)>>,
           ssid |-> <<Call("ssid_capability", 0)>>,
           pcie |-> Run(<<"pcie_capability", "pcie_device", "pcie_link",
                          "pcie_slot", "pcie_root">>)],
          <<>>),
         CallWith("next_capability", <<"next">>)>>

next_capability(ptr) ==
  <<Close,
    AliasOf("capability.", <<"capability", "[-1]", "id">>, <<"capability", "[-1]">>),
    Call("capabilities", ptr)>>

ecapabilities(ptr) ==
  IF ptr \in {0, 4095} THEN <<>>
  ELSE <<OpenNext("ecapability"),
         F({"hex16_t"}, {}, <<"offset">>),
         VFrom({"pcie_capability_t"}, {Anon}, "id", ExtCapabilityKeys,
                "id@" \o ToString(ptr)),
         R(<<"%ver_next">>),
         F({"hex4_t"}, {<<"%ver_next">>}, <<"version">>),
         VFrom({"hex12_t"}, {<<"%ver_next">>}, "next", NoKeys,
                "next@" \o ToString(ptr)),
         Case(<<"id">>, [aer |-> <<Call("aer_ecapability", 0)>>], <<>>),
         CallWith("next_ecapability", <<"next">>)>>

next_ecapability(ptr) ==
  <<Close,
    AliasOf("ecapability.", <<"ecapability", "[-1]", "id">>,
             <<"ecapability", "[-1]">>),
    Call("ecapabilities", ptr)>>

create_pci_bridge ==
  <<F({"int_t"}, {Anon}, <<"pri_bus", "sec_bus", "sub_bus", "sec_latency">>),
    R(<<"%sec_status">>),
    Open("sec_status"),
    F({"yesno_t"}, {Up("%sec_status")},
      <<"cap66", "fbb", "mdperr", "devsel", "sigtabort", "rcvtabort",
        "rcvmabort", "rcvserr", "perr">>),
    Close,
    Open("io_window"),
    R(<<"%base_lo", "%base_hi", "%limit_lo", "%limit_hi">>),
    VFrom({}, {<<"%base_lo">>}, "width", [bits16 |-> 0, bits32 |-> 1],
                                          "io_window.width"),
    Case(<<"width">>,
     [bits16 |->
        <<F({"addr16_t"}, {<<"%base_lo">>, <<"%limit_lo">>},
            <<"base", "limit">>)>>,
      bits32 |->
        <<F({"addr32_t"},
            {<<"%base_hi">>, <<"%base_lo">>, <<"%limit_hi">>, <<"%limit_lo">>},
            <<"base", "limit">>)>>],
     <<>>),
    Close,
    Open("mem_window"),
    R(<<"%base", "%limit">>),
    F({"addr32_t"}, {<<"%base">>, <<"%limit">>},
      <<"base", "limit">>),
    Close,
    Open("prefetch_window"),
    R(<<"%base_lo", "%base_hi", "%limit_lo", "%limit_hi">>),
    VFrom({}, {<<"%base_lo">>}, "width", [bits32 |-> 0, bits64 |-> 1],
                                          "prefetch_window.width"),
    Case(<<"width">>,
     [bits32 |->
        <<F({"addr32_t"}, {<<"%base_lo">>, <<"%limit_lo">>},
            <<"base", "limit">>)>>,
      bits64 |->
        <<F({"addr64_t"},
            {<<"%base_hi">>, <<"%base_lo">>, <<"%limit_hi">>, <<"%limit_lo">>},
            <<"base", "limit">>)>>],
     <<>>),
    Close,
    Call("explore_capabilities", 0),
    R(<<"%rombase">>),
    Open("rombase"),
    F({"addr32_t", "yesno_t"}, {Up("%rombase")},
      <<"enabled", "address">>),
    Close,
    R(<<"%bridge_ctrl">>),
    Open("bridge_ctrl"),
    T(<<"discard_timer_t">>),
    F({"discard_timer_t", "yesno_t"}, {Up("%bridge_ctrl")},
      <<"perr", "serr", "isa", "vga", "vga16", "mst_abort", "sec_reset",
        "fbb", "pri_discard", "sec_discard", "discard_status",
        "discard_serr">>),
    Close>>

\* (Mutation of Is64Bit: whatever is not of 32 bits.)
IsNot32Bit(bar) ==
  And(Eq(<<bar, "type">>, "mem"), Not(Eq(<<bar, "width">>, "bits32")))
Is64Bit(bar) == And(Eq(<<bar, "type">>, "mem"), Eq(<<bar, "width">>, "bits64"))

create_device ==
  [i \in 1..4 |->
    LET this == "bar" \o ToString(i)
    IN When(Or(Not(Defined(<<this>>)), Not(Is64Bit(this))),
            <<Call("BAR", "bar" \o ToString(i + 1))>>)]
  \o <<
    F({"addr32_t", "hex16_t", "pci_vendor_t"}, {Anon},
      <<"cisptr", "subvendor", "subsystem">>),
    Call("explore_capabilities", 0),
    R(<<"%rombase">>),
    Open("rombase"),
    F({"addr32_t", "yesno_t"}, {Up("%rombase")},
      <<"enabled", "address">>),
    Close,
    F({}, {Anon}, <<"mingnt", "maxlat">>)>>

pci_generic_device ==
  <<Bookmark("$pci"),
    R(ConfigSpace), When(Holds("extended"), <<R(ExtendedConfigSpace)>>),
    F({"hex16_t", "pci_vendor_t"}, {Anon},
      <<"vendor", "device">>),
    R(<<"%command">>),
    Open("command"),
    F({"yesno_t"}, {Up("%command")}, <<"io", "mem", "bm", "special", "mwinv",
      "vgasnoop", "perr", "step", "serr", "fbb", "intr">>),
    Close,
    R(<<"%status">>),
    Open("status"),
    F({"yesno_t"}, {Up("%status")}, <<"intr">>),
    V({"yesno_t"}, {Up("%status")}, "caps", YesNo),
    F({"yesno_t"}, {Up("%status")}, <<"cap66", "user", "fbb", "mdperr",
      "devsel", "sigtabort", "rcvtabort", "rcvmabort", "sigserr", "perr">>),
    Close,
    V({"pci_class_t"}, {Anon}, "class", ClassKeys),
    Case(<<"class">>,
     [c \in {"pre_classcode", "mass_storage", "network", "display", "multimedia",
            "memory", "bridge"} |->
        <<F({"pci_subclass_" \o c}, {Anon}, <<"subclass">>)>>],
     <<F({"hex8_t"}, {Anon}, <<"subclass">>)>>),
    F({"hex8_t"}, {Anon}, <<"progintf", "revision", "cacheline">>),
    R(<<"%hdrtype">>),
    V({}, {<<"%hdrtype">>}, "hdrtype", [device |-> 0, pci_bridge |-> 1,
                                        cardbus_bridge |-> 2]),
    F({"yesno_t"}, {<<"%hdrtype">>}, <<"multifunc">>),
    R(<<"%bist">>),
    Open("bist"),
    F({"hex8_t", "yesno_t"}, {Up("%bist")},
      <<"capable", "start", "code">>),
    Close,
    F({"int_t"}, {Anon}, <<"intline", "intpin">>),
    Call("BAR", "bar0"),
    When(Not(Is64Bit("bar0")),
     <<Call("BAR", "bar1")>>),
    Case(<<"hdrtype">>,
     [device |->
        <<Call("create_device", 0)>>,
      pci_bridge |->
        <<Call("create_pci_bridge", 0)>>],
     <<>>)>>

PCI_SCOPE(name) ==
  <<OpenBound(name), Call("pci_generic_device", 0)>>

(* The callback of the PCI discovery.                                      *)
\* (Mutation of pci_discovered: no CLOSE_SCOPE.)
pci_discovered_open(name) == <<Call("PCI_SCOPE", name)>>
pci_discovered(name) == <<Call("PCI_SCOPE", name), Close>>

-----------------------------------------------------------------------------
(* What a Call runs.                                                       *)
PciSections ==
  {"BAR", "ht_link_control", "ht_link_config", "ht_link_freq_err",
   "ht_link_freq_cap", "ht_error_handling", "ht_slave_link",
   "ht_slave_capability", "ht_host_link", "ht_host_capability",
   "ht_revision_capability", "ht_extended_config_capability",
   "ht_address_mapping_capability", "ht_dma", "ht_msi_mapping_capability",
   "power_mgmt_capability", "slot_id_capability", "msi_capability",
   "msi_vectors", "msix_capability", "msix_table", "ht_capability",
   "ssid_capability", "pcie_capability", "pcie_device", "pcie_link",
   "pcie_slot", "pcie_root", "aer_ecapability", "explore_capabilities",
   "capabilities", "next_capability", "ecapabilities", "next_ecapability",
   "create_pci_bridge", "create_device", "pci_generic_device", "PCI_SCOPE",
   "pci_discovered"}

PciBody(fn, arg) ==
  CASE fn = "BAR" -> BAR(arg)
    [] fn = "ht_link_control" -> ht_link_control
    [] fn = "ht_link_config" -> ht_link_config
    [] fn = "ht_link_freq_err" -> ht_link_freq_err
    [] fn = "ht_link_freq_cap" -> ht_link_freq_cap
    [] fn = "ht_error_handling" -> ht_error_handling
    [] fn = "ht_slave_link" -> ht_slave_link(arg)
    [] fn = "ht_slave_capability" -> ht_slave_capability
    [] fn = "ht_host_link" -> ht_host_link(arg)
    [] fn = "ht_host_capability" -> ht_host_capability
    [] fn = "ht_revision_capability" -> ht_revision_capability
    [] fn = "ht_extended_config_capability" -> ht_extended_config_capability
    [] fn = "ht_address_mapping_capability" -> ht_address_mapping_capability
    [] fn = "ht_dma" -> ht_dma(arg)
    [] fn = "ht_msi_mapping_capability" -> ht_msi_mapping_capability
    [] fn = "power_mgmt_capability" -> power_mgmt_capability
    [] fn = "slot_id_capability" -> slot_id_capability
    [] fn = "msi_capability" -> msi_capability
    [] fn = "msi_vectors" -> msi_vectors(arg)
    [] fn = "msix_capability" -> msix_capability
    [] fn = "msix_table" -> msix_table(arg)
    [] fn = "ht_capability" -> ht_capability
    [] fn = "ssid_capability" -> ssid_capability
    [] fn = "pcie_capability" -> pcie_capability
    [] fn = "pcie_device" -> pcie_device
    [] fn = "pcie_link" -> pcie_link
    [] fn = "pcie_slot" -> pcie_slot
    [] fn = "pcie_root" -> pcie_root
    [] fn = "aer_ecapability" -> aer_ecapability
    [] fn = "explore_capabilities" -> explore_capabilities
    [] fn = "capabilities" -> capabilities(arg)
    [] fn = "next_capability" -> next_capability(arg)
    [] fn = "ecapabilities" -> ecapabilities(arg)
    [] fn = "next_ecapability" -> next_ecapability(arg)
    [] fn = "create_pci_bridge" -> create_pci_bridge
    [] fn = "create_device" -> create_device
    [] fn = "pci_generic_device" -> pci_generic_device
    [] fn = "PCI_SCOPE" -> PCI_SCOPE(arg)
    [] fn = "pci_discovered" -> pci_discovered(arg)
===============================================================================
