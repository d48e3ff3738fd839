------------------------------ MODULE MCControl ------------------------------
(* Instances of the control path for TLC. *)
EXTENDS ControlPath

BothMacs == {wifi_get_mac("sta"), wifi_get_mac("ap")}
OneCommand == {wifi_get_mode}
AllCommands ==
    {wifi_get_mac("sta"), wifi_get_mac("ap"), wifi_set_mac("sta"), wifi_get_mode,
     wifi_set_mode("sta"), wifi_set_ap_config("ssid"), wifi_get_ap_config, wifi_disconnect_ap,
     wifi_set_softap_config("ssid"), wifi_get_softap_config, wifi_stop_softap,
     wifi_ap_scan_list, wifi_connected_stations_list, wifi_set_power_save_mode("min_modem"),
     wifi_get_power_save_mode, esp_ota_begin, esp_ota_write("data"), esp_ota_write("long"), esp_ota_end}
=============================================================================
